---- MODULE Spec2Model ----
(***************************************************************************)
(* Model of the MS-RRP (remote registry) NDR codec of go-smb, package      *)
(* msrrp: the RRPUnicodeStr / conformant-varying string codec, the         *)
(* referent-ID counter, and the request encoders / response decoders.      *)
(* Byte streams are sequences of 0..255; a Go string is the sequence of    *)
(* its code points (BMP).                                                  *)
(***************************************************************************)
EXTENDS Integers, Sequences, FiniteSets, TLC

VARIABLES pc, enc, dec, calls, refCell, prog

vars == <<pc, enc, dec, calls, refCell, prog>>

Null == [null |-> TRUE]

(***************************************************************************)
(* Bounds of the model.                                                    *)
(***************************************************************************)
MaxStrLen == 2
NCalls == 2

(***************************************************************************)
(* Fixed-width integers and little-endian encoding (binary.LittleEndian).  *)
(***************************************************************************)
\* uint16 arithmetic.  uint32 values of the encoders (referent IDs, lengths,
\* request fields) stay far below 2^31 and are plain integers.
U16(n) == n % 65536

LE16(n) == <<n % 256, (n \div 256) % 256>>

LE32(n) == <<n % 256, (n \div 256) % 256, (n \div 65536) % 256, (n \div 16777216) % 256>>

Zeros(n) == [i \in 1..n |-> 0]

HKeyLen == 20

(***************************************************************************)
(* Go strings.  len(s) is the length of the UTF-8 form; utf16.Encode gives *)
(* one 16-bit unit per BMP code point.                                     *)
(***************************************************************************)
Utf8Len(s) ==
    Len(s) + Cardinality({i \in DOMAIN s : s[i] >= 128})
           + Cardinality({i \in DOMAIN s : s[i] >= 2048})

\* msdtyp.NullTerminate: the string ends in one null character afterwards.
NullTerminate(s) ==
    IF s = <<>> THEN <<0>>
    ELSE IF s[Len(s)] = 0 THEN s ELSE Append(s, 0)

\* msdtyp.StripNullByte: drops one trailing null character when there is one.
StripNullByte(s) ==
    IF s = <<>> THEN s
    ELSE IF s[Len(s)] = 0 THEN SubSeq(s, 1, Len(s) - 1) ELSE s

\* msdtyp.ToUnicode: UTF-16LE bytes of the string.
ToUnicode(s) ==
    [i \in 1..(2 * Len(s)) |->
        IF i % 2 = 1 THEN s[(i + 1) \div 2] % 256 ELSE s[i \div 2] \div 256]

\* msdtyp.FromUnicodeString: the string of a UTF-16LE byte buffer.
FromUnicodeString(b) ==
    [i \in 1..(Len(b) \div 2) |-> b[2 * i - 1] + 256 * b[2 * i]]

\* Padding of a conformant-varying record to a 4-byte boundary.
PaddLen(offset, count) ==
    LET consumed == offset * 2 + count * 2
    IN IF consumed % 4 = 0 THEN 0 ELSE 4 - (consumed % 4)

\* msdtyp.NewUnicodeStr(s, nullTerminated): offset, count, paddlen, buffer.
NewUnicodeStr(s, nullTerminated) ==
    LET t == IF nullTerminated THEN NullTerminate(s) ELSE s
    IN [offset |-> 0, count |-> Len(t), paddlen |-> PaddLen(0, Len(t)),
        buffer |-> ToUnicode(t)]

(***************************************************************************)
(* The encoder state threaded through one MarshalBinary call: the request  *)
(* (string fields are rewritten in place), the output buffer w, the        *)
(* referent-ID counter, and a record of every pointer slot written.        *)
(***************************************************************************)
Put(st, bytes) == [st EXCEPT !.b = @ \o bytes]

PutPtr(st, v, absent) ==
    [st EXCEPT !.b = @ \o LE32(v),
               !.refs = Append(@, [v |-> v, absent |-> absent, at |-> Len(st.b)])]

\* The record of one conformant-varying string written: where its header
\* starts, its Offset and ActualCount, and where its bytes and padding end.
Wrote(st0, st1, offset, count, nbuf) ==
    [st1 EXCEPT !.strs = Append(@, [at |-> Len(st0.b), offset |-> offset,
                                    count |-> count, elemEnd |-> Len(st0.b) + 12 + nbuf,
                                    end |-> Len(st1.b)])]

\* The empty string is written like any other: count 1 and a null character.
writeConformantVaryingString_Naive(st, us) ==
    LET u == NewUnicodeStr(us.S, TRUE)
        hdr == Put(st, LE32(us.MaxLength) \o LE32(u.offset) \o LE32(u.count))
    IN Wrote(st, Put(hdr, u.buffer \o Zeros(u.paddlen)), u.offset, u.count,
             Len(u.buffer))

\* MaxCount is written as the element count instead of us.MaxLength.
writeConformantVaryingString_CountAsMax(st, us) ==
    LET u == NewUnicodeStr(us.S, TRUE)
        count == IF us.S = <<>> THEN 0 ELSE u.count
        hdr == Put(st, LE32(count) \o LE32(u.offset) \o LE32(count))
    IN IF us.S = <<>> THEN Wrote(st, hdr, u.offset, count, 0)
       ELSE Wrote(st, Put(hdr, u.buffer \o Zeros(u.paddlen)), u.offset, count,
                  Len(u.buffer))

writeConformantVaryingString(st, us) ==
    LET u == NewUnicodeStr(us.S, TRUE)
        count == IF us.S = <<>> THEN 0 ELSE u.count
        hdr == Put(st, LE32(us.MaxLength) \o LE32(u.offset) \o LE32(count))
    IN IF us.S = <<>> THEN Wrote(st, hdr, u.offset, count, 0)
       ELSE Wrote(st, Put(hdr, u.buffer \o Zeros(u.paddlen)), u.offset, count,
                  Len(u.buffer))

\* The counter is not advanced after the referent ID is written.
writeConformantVaryingStringPtr_NoInc(st, us) ==
    LET st1 == IF st.refId # 0 THEN PutPtr(st, st.refId, FALSE) ELSE st
    IN writeConformantVaryingString(st1, us)

writeConformantVaryingStringPtr(st, us) ==
    LET st1 == IF st.refId # 0 THEN PutPtr(st, st.refId, FALSE) ELSE st
        st2 == [st1 EXCEPT !.refId = @ + 1]
    IN writeConformantVaryingString(st2, us)

\* A null character is appended whatever the string ends in.
writeRRPUnicodeStr_AppendNull(st, f, optional) ==
    LET us == st.req[f]
        S1 == IF us.S = <<>> THEN us.S ELSE Append(us.S, 0)
        encodedLen == IF us.S = <<>> THEN 0 ELSE U16(U16(Utf8Len(S1)) * 2)
        l == U16(Utf8Len(S1))
        ML == IF us.MaxLength < l THEN l ELSE us.MaxLength
        us1 == [MaxLength |-> ML, S |-> S1]
        st1 == [Put(st, LE16(encodedLen) \o LE16(U16(ML * 2))) EXCEPT !.req[f] = us1]
    IN IF S1 = <<>> /\ optional
       THEN PutPtr(st1, 0, TRUE)
       ELSE writeConformantVaryingStringPtr(st1, us1)

writeRRPUnicodeStr(st, f, optional) ==
    LET us == st.req[f]
        S1 == IF us.S = <<>> THEN us.S ELSE NullTerminate(us.S)
        encodedLen == IF us.S = <<>> THEN 0 ELSE U16(U16(Utf8Len(S1)) * 2)
        l == U16(Utf8Len(S1))
        ML == IF us.MaxLength < l THEN l ELSE us.MaxLength
        us1 == [MaxLength |-> ML, S |-> S1]
        st1 == [Put(st, LE16(encodedLen) \o LE16(U16(ML * 2))) EXCEPT !.req[f] = us1]
    IN IF S1 = <<>> /\ optional
       THEN PutPtr(st1, 0, TRUE)
       ELSE writeConformantVaryingStringPtr(st1, us1)

(***************************************************************************)
(* msdtyp collaborators used by the encoders: the self-relative security   *)
(* descriptor blob and the conformant(-varying) byte arrays.               *)
(***************************************************************************)
\* msdtyp.SecurityDescriptor.MarshalBinary: a 20-byte self-relative header
\* (revision, sbz1, control, four offsets) followed by the owner SID bytes.
SecurityDescriptor_MarshalBinary(sd) ==
    <<sd.Revision, 0>> \o LE16(sd.Control)
        \o LE32(IF sd.Owner = <<>> THEN 0 ELSE 20) \o LE32(0) \o LE32(0) \o LE32(0)
        \o sd.Owner

ArrPadd(n) == IF n % 4 = 0 THEN 0 ELSE 4 - (n % 4)

\* msdtyp.WriteConformantVaryingArray(w, data, maxCount)
WriteConformantVaryingArray(st, data, maxCount) ==
    LET mc == IF maxCount < Len(data) THEN Len(data) ELSE maxCount
    IN Put(st, LE32(mc) \o LE32(0) \o LE32(Len(data)) \o data \o Zeros(ArrPadd(Len(data))))

\* msdtyp.WriteConformantVaryingArrayPtr(w, data, maxCount, refId)
WriteConformantVaryingArrayPtr(st, data, maxCount) ==
    LET st1 == [PutPtr(st, st.refId, FALSE) EXCEPT !.refId = @ + 1]
    IN WriteConformantVaryingArray(st1, data, maxCount)

\* msdtyp.WriteConformantArray(w, data)
WriteConformantArray(st, data) ==
    Put(st, LE32(Len(data)) \o data \o Zeros(ArrPadd(Len(data))))

writeRPCSecurityAttributes(st, sa) ==
    LET st1 == [PutPtr(st, st.refId, FALSE) EXCEPT !.refId = @ + 1]
        buf == SecurityDescriptor_MarshalBinary(sa.SecurityDescriptor.SecurityDescriptor)
        buflen == Len(buf)
        Length == IF sa.Length < buflen THEN buflen ELSE sa.Length
        st2 == [Put(st1, LE32(Length)) EXCEPT !.refId = @ + 1]
        st3 == [PutPtr(st2, st2.refId, FALSE) EXCEPT !.refId = @ + 1]
        st4 == Put(st3, LE32(buflen) \o LE32(buflen) \o LE32(sa.InheritHandle))
    IN WriteConformantVaryingArray(st4, buf, 0)

\* The allocated size is written as the caller gave it.
writeRPCSecurityDescriptor_NoRaise(st, sd) ==
    IF sd.SecurityDescriptor = Null
    THEN Put(PutPtr(st, 0, TRUE),
             LE32(sd.InSecurityDescriptor) \o LE32(sd.OutSecurityDescriptor))
    ELSE WriteConformantVaryingArray(
             Put([PutPtr(st, st.refId, FALSE) EXCEPT !.refId = @ + 1],
                 LE32(sd.InSecurityDescriptor)
                 \o LE32(Len(SecurityDescriptor_MarshalBinary(sd.SecurityDescriptor)))),
             SecurityDescriptor_MarshalBinary(sd.SecurityDescriptor), 0)

writeRPCSecurityDescriptor(st, sd) ==
    IF sd.SecurityDescriptor = Null
    THEN Put(PutPtr(st, 0, TRUE),
             LE32(sd.InSecurityDescriptor) \o LE32(sd.OutSecurityDescriptor))
    ELSE LET st1 == IF st.refId # 0
                    THEN [PutPtr(st, st.refId, FALSE) EXCEPT !.refId = @ + 1]
                    ELSE st
             buf == SecurityDescriptor_MarshalBinary(sd.SecurityDescriptor)
             buflen == Len(buf)
             In == IF sd.InSecurityDescriptor < buflen THEN buflen
                   ELSE sd.InSecurityDescriptor
             st2 == Put(st1, LE32(In) \o LE32(buflen))
         IN WriteConformantVaryingArray(st2, buf, 0)

(***************************************************************************)
(* One statement of a MarshalBinary body.  A MarshalBinary is the sequence *)
(* of its statements; a statement that fails ends the call.                *)
(***************************************************************************)
Fail(st, e) == [st EXCEPT !.err = e, !.b = <<>>]

\* The handle is written without the length check.
writeHKey_NoCheck(st) == Put(st, st.req.HKey)

\* if len(self.HKey) != 20 { return error }; binary.Write(w, le, self.HKey[:20])
writeHKey(st) ==
    IF Len(st.req.HKey) # HKeyLen THEN Fail(st, "InvalidHandle")
    ELSE Put(st, st.req.HKey)

ApplyW(step, st) ==
    CASE step.op = "HKey" -> writeHKey(st)
      [] step.op = "InitRef" -> [st EXCEPT !.refId = 1]
      [] step.op = "U32" -> Put(st, LE32(st.req[step.f]))
      [] step.op = "RRPStr" -> writeRRPUnicodeStr(st, step.f, step.optional)
      [] step.op = "RefId" -> [PutPtr(st, st.refId, FALSE) EXCEPT !.refId = @ + 1]
      [] step.op = "RefIdNoInc" -> PutPtr(st, st.refId, FALSE)
      [] step.op = "Filetime" ->
            IF st.req[step.f] = Null THEN Fail(st, "panic")
            ELSE Put(st, LE32(st.req[step.f].LowDateTime)
                         \o LE32(st.req[step.f].HighDateTime))
      [] step.op = "ArrPtr" ->
            WriteConformantVaryingArrayPtr(st, st.req.Data, st.req.MaxLen)
      [] step.op = "ConfArr" -> WriteConformantArray(st, st.req.Data)
      [] step.op = "LenData" -> Put(st, LE32(Len(st.req.Data)))
      [] step.op = "SecAttrOpt" ->
            IF st.req[step.f] = Null THEN PutPtr(st, 0, TRUE)
            ELSE writeRPCSecurityAttributes(st, st.req[step.f])
      [] step.op = "SecAttr" -> writeRPCSecurityAttributes(st, st.req[step.f])
      [] step.op = "SecDesc" -> writeRPCSecurityDescriptor(st, st.req[step.f])
      [] step.op = "Disposition" ->
            IF st.req.Disposition # 0
            THEN Put(PutPtr(st, st.refId, FALSE), LE32(st.req.Disposition))
            ELSE PutPtr(st, st.req.Disposition, TRUE)
      [] step.op = "NotImpl" -> Fail(st, "NotImplemented")

S(op) == [op |-> op]

F(op, f) == [op |-> op, f |-> f]

Str(f, optional) == [op |-> "RRPStr", f |-> f, optional |-> optional]

RRPUnicodeStr_MarshalBinary == <<S("InitRef"), Str("self", FALSE)>>

OpenRootKeyReq_MarshalBinary == <<F("U32", "ServerName"), F("U32", "DesiredAccess")>>

OpenKeyRes_MarshalBinary == <<S("HKey"), F("U32", "ReturnCode")>>

BaseRegCloseKeyReq_MarshalBinary == <<S("HKey")>>

\* Disposition written as a plain value, with no referent ID in front.
BaseRegCreateKeyReq_MarshalBinary_NoReferent ==
    <<S("HKey"), S("InitRef"), Str("SubKey", FALSE), Str("Class", FALSE),
      F("U32", "Options"), F("U32", "DesiredAccess"),
      F("SecAttrOpt", "SecurityAttr"), F("U32", "Disposition")>>

BaseRegCreateKeyReq_MarshalBinary ==
    <<S("HKey"), S("InitRef"), Str("SubKey", FALSE), Str("Class", FALSE),
      F("U32", "Options"), F("U32", "DesiredAccess"),
      F("SecAttrOpt", "SecurityAttr"), S("Disposition")>>

BaseRegDeleteKeyReq_MarshalBinary == <<S("HKey"), S("InitRef"), Str("SubKey", FALSE)>>

BaseRegDeleteValueReq_MarshalBinary ==
    <<S("HKey"), S("InitRef"), Str("ValueName", FALSE)>>

BaseRegEnumKeyReq_MarshalBinary ==
    <<S("HKey"), F("U32", "Index"), S("InitRef"), Str("NameIn", FALSE),
      S("RefId"), Str("ClassIn", FALSE), S("RefIdNoInc"),
      F("Filetime", "LastWriteTime")>>

BaseRegEnumValueReq_MarshalBinary ==
    <<S("HKey"), F("U32", "Index"), S("InitRef"), Str("NameIn", FALSE),
      S("RefId"), F("U32", "Type"), S("ArrPtr"),
      S("RefId"), F("U32", "MaxLen"), S("RefId"), S("LenData")>>

BaseRegGetKeySecurityReq_MarshalBinary ==
    <<S("HKey"), F("U32", "SecurityInformation"), S("InitRef"),
      F("SecDesc", "SecurityDescriptorIn")>>

\* Options and DesiredAccess are written in the other order.
BaseRegOpenKeyReq_MarshalBinary_Swapped ==
    <<S("HKey"), S("InitRef"), Str("SubKey", FALSE),
      F("U32", "DesiredAccess"), F("U32", "Options")>>

BaseRegOpenKeyReq_MarshalBinary ==
    <<S("HKey"), S("InitRef"), Str("SubKey", FALSE),
      F("U32", "Options"), F("U32", "DesiredAccess")>>

BaseRegQueryInfoKeyReq_MarshalBinary ==
    <<S("HKey"), S("InitRef"), Str("ClassIn", TRUE)>>

\* The counter is not advanced after the Type referent ID.
BaseRegQueryValueReq_MarshalBinary_TypeNoInc ==
    <<S("HKey"), S("InitRef"), Str("ValueName", FALSE),
      S("RefIdNoInc"), F("U32", "Type"), S("ArrPtr"),
      S("RefId"), F("U32", "MaxLen"), S("RefId"), S("LenData")>>

BaseRegQueryValueReq_MarshalBinary ==
    <<S("HKey"), S("InitRef"), Str("ValueName", FALSE),
      S("RefId"), F("U32", "Type"), S("ArrPtr"),
      S("RefId"), F("U32", "MaxLen"), S("RefId"), S("LenData")>>

BaseRegSaveKeyReq_MarshalBinary ==
    <<S("HKey"), S("InitRef"), Str("FileName", FALSE),
      F("SecAttr", "SecurityAttributes")>>

BaseRegSetKeySecurityReq_MarshalBinary ==
    <<S("HKey"), F("U32", "SecurityInformation"), S("InitRef"),
      F("SecDesc", "SecurityDescriptorIn")>>

BaseRegSetValueReq_MarshalBinary ==
    <<S("HKey"), S("InitRef"), Str("ValueName", FALSE), F("U32", "Type"),
      S("ConfArr"), S("LenData")>>

\* The methods that only return fmt.Errorf("NOT IMPLEMENTED ..."):
\* MarshalBinary of ReturnCode and of the responses but OpenKeyRes,
\* UnmarshalBinary of the requests but OpenRootKeyReq and BaseRegCloseKeyReq.
MarshalNotImplemented ==
    {"ReturnCode", "BaseRegCreateKeyRes", "BaseRegEnumKeyRes", "BaseRegEnumValueRes",
     "BaseRegGetKeySecurityRes", "BaseRegQueryInfoKeyRes", "BaseRegQueryValueRes"}

UnmarshalNotImplemented ==
    {"BaseRegCreateKeyReq", "BaseRegDeleteKeyReq", "BaseRegDeleteValueReq",
     "BaseRegEnumKeyReq", "BaseRegEnumValueReq", "BaseRegGetKeySecurityReq",
     "BaseRegOpenKeyReq", "BaseRegQueryInfoKeyReq", "BaseRegQueryValueReq",
     "BaseRegSaveKeyReq", "BaseRegSetKeySecurityReq", "BaseRegSetValueReq"}

NotImplemented_MarshalBinary == <<S("NotImpl")>>

MarshalSteps(typ) ==
    CASE typ \in MarshalNotImplemented -> NotImplemented_MarshalBinary
      [] typ = "RRPUnicodeStr" -> RRPUnicodeStr_MarshalBinary
      [] typ = "OpenRootKeyReq" -> OpenRootKeyReq_MarshalBinary
      [] typ = "OpenKeyRes" -> OpenKeyRes_MarshalBinary
      [] typ = "BaseRegCloseKeyReq" -> BaseRegCloseKeyReq_MarshalBinary
      [] typ = "BaseRegCreateKeyReq" -> BaseRegCreateKeyReq_MarshalBinary
      [] typ = "BaseRegDeleteKeyReq" -> BaseRegDeleteKeyReq_MarshalBinary
      [] typ = "BaseRegDeleteValueReq" -> BaseRegDeleteValueReq_MarshalBinary
      [] typ = "BaseRegEnumKeyReq" -> BaseRegEnumKeyReq_MarshalBinary
      [] typ = "BaseRegEnumValueReq" -> BaseRegEnumValueReq_MarshalBinary
      [] typ = "BaseRegGetKeySecurityReq" -> BaseRegGetKeySecurityReq_MarshalBinary
      [] typ = "BaseRegOpenKeyReq" -> BaseRegOpenKeyReq_MarshalBinary
      [] typ = "BaseRegQueryInfoKeyReq" -> BaseRegQueryInfoKeyReq_MarshalBinary
      [] typ = "BaseRegQueryValueReq" -> BaseRegQueryValueReq_MarshalBinary
      [] typ = "BaseRegSaveKeyReq" -> BaseRegSaveKeyReq_MarshalBinary
      [] typ = "BaseRegSetKeySecurityReq" -> BaseRegSetKeySecurityReq_MarshalBinary
      [] typ = "BaseRegSetValueReq" -> BaseRegSetValueReq_MarshalBinary

\* The encoder state at entry of MarshalBinary: w := bytes.NewBuffer(ret).
NewW(req) ==
    [req |-> req, b |-> <<>>, refs |-> <<>>, strs |-> <<>>, refId |-> 0, err |-> "none"]

RECURSIVE RunW(_, _, _)
RunW(steps, i, st) ==
    IF i > Len(steps) \/ st.err # "none" THEN st
    ELSE RunW(steps, i + 1, ApplyW(steps[i], st))

\* MarshalBinary of a request value, run to completion.
MarshalBinary(req) == RunW(MarshalSteps(req.typ), 1, NewW(req))

(***************************************************************************)
(* bytes.Reader.  The read position is an int64 and the counts taken from  *)
(* the wire are uint32: both are kept as 16-bit limbs [hi, lo] (value      *)
(* hi * 2^16 + lo) so that positions beyond the buffer and wrapping        *)
(* products are computed exactly.                                          *)
(***************************************************************************)
W32(b) == [lo |-> b[1] + 256 * b[2], hi |-> b[3] + 256 * b[4]]

IsZero32(u) == u.lo = 0 /\ u.hi = 0

\* uint32 product u*2 and sum u+v, wrapping at 2^32.
Mul2_32(u) ==
    [lo |-> (2 * u.lo) % 65536, hi |-> (2 * u.hi + (2 * u.lo) \div 65536) % 65536]

Add32(u, v) ==
    [lo |-> (u.lo + v.lo) % 65536, hi |-> (u.hi + v.hi + (u.lo + v.lo) \div 65536) % 65536]

\* int64 position p advanced by a small n, by u, and by int64(u)*2.
PosAdd(p, n) == [lo |-> (p.lo + n) % 65536, hi |-> p.hi + (p.lo + n) \div 65536]

PosAdd32(p, u) ==
    [lo |-> (p.lo + u.lo) % 65536, hi |-> p.hi + u.hi + (p.lo + u.lo) \div 65536]

PosAdd2x(p, u) == PosAdd32(PosAdd32(p, u), u)

PosOf(n) == [lo |-> n % 65536, hi |-> n \div 65536]

\* Limb values this large are beyond every buffer of the model.
Far == 2 ^ 13

Avail(r) ==
    IF r.pos.hi >= Far THEN 0
    ELSE LET i == r.pos.hi * 65536 + r.pos.lo
         IN IF i >= Len(r.buf) THEN 0 ELSE Len(r.buf) - i

\* bytes.NewReader(buf), with the receiver self of the decoding method.
NewReader(buf, self) ==
    [buf |-> buf, pos |-> PosOf(0), self |-> self, err |-> "none", nread |-> 0,
     val |-> <<>>, cvs |-> <<>>, refs |-> <<>>, done |-> FALSE]

\* io.ReadFull of n bytes, as binary.Read does it (n is a limb pair).
ReadFull(r, n) ==
    LET a == Avail(r)
    IN IF IsZero32(n) THEN [r EXCEPT !.val = <<>>]
       ELSE IF a = 0 THEN [r EXCEPT !.err = "EOF", !.val = <<>>]
       ELSE IF n.hi >= Far \/ n.hi * 65536 + n.lo > a
            THEN [r EXCEPT !.err = "ErrUnexpectedEOF", !.val = <<>>,
                           !.pos = PosOf(Len(r.buf)), !.nread = @ + a]
       ELSE LET k == n.hi * 65536 + n.lo
                i == r.pos.hi * 65536 + r.pos.lo
            IN [r EXCEPT !.val = SubSeq(r.buf, i + 1, i + k),
                         !.pos = PosAdd(r.pos, k), !.nread = @ + k]

Read(r, n) == ReadFull(r, PosOf(n))

\* r.Seek(n, io.SeekCurrent) for n >= 0: never fails, may pass the end.
SeekCur(r, n) == [r EXCEPT !.pos = PosAdd(@, n)]

\* Skip ReferentId Ptr: r.Seek(4, io.SeekCurrent) over a pointer slot, whose
\* position is kept in refs.
SkipReferentId(r) == [SeekCur(r, 4) EXCEPT !.refs = Append(@, r.pos)]

\* A uint32 field of a receiver.  Values from 2^31 on are held as value - 2^32
\* (the same 32 bits read as int32); the decoders only test them against 0.
Int32(b) ==
    b[1] + 256 * b[2] + 65536 * b[3]
    + 16777216 * (IF b[4] >= 128 THEN b[4] - 256 ELSE b[4])

Int16(b) == b[1] + 256 * b[2]

\* The padding is computed from the count alone.
paddLenOf_NoOffset(offset, actualCount) == 4 - (Mul2_32(actualCount).lo % 4)

\* paddLen := 4 - ((offset*2 + actualCount*2) % 4), in uint32.
paddLenOf(offset, actualCount) ==
    4 - (Add32(Mul2_32(offset), Mul2_32(actualCount)).lo % 4)

\* readConformantVaryingString, statement by statement; each stage takes the
\* reader as the stage before left it and the values already read.
\* The result s and the position behind the padding (lines 110-126).
readConformantVaryingString_result(r5, r6, offset, actualCount) ==
    [r6 EXCEPT !.val = IF ~IsZero32(actualCount)
                       THEN FromUnicodeString(r5.val) ELSE <<>>,
               !.cvs = Append(@, [offset |-> offset, actualCount |-> actualCount,
                                  elemEnd |-> r5.pos, end |-> r6.pos])]

\* if paddLen != 4 { r.Seek(int64(paddLen), io.SeekCurrent) } (lines 117-125).
readConformantVaryingString_padding(r5, offset, actualCount, paddLen) ==
    readConformantVaryingString_result(
        r5, IF paddLen # 4 THEN SeekCur(r5, paddLen) ELSE r5, offset, actualCount)

\* The error check behind the read of the characters (lines 102-105).
readConformantVaryingString_unicode(r5, offset, actualCount) ==
    IF r5.err # "none" THEN [r5 EXCEPT !.val = <<>>]
    ELSE readConformantVaryingString_padding(r5, offset, actualCount,
                                             paddLenOf(offset, actualCount))

\* if actualCount > 0 { unc := make([]byte, actualCount*2); binary.Read(...) }
readConformantVaryingString_elements(r4, offset, actualCount) ==
    readConformantVaryingString_unicode(
        IF ~IsZero32(actualCount) THEN ReadFull(r4, Mul2_32(actualCount))
        ELSE [r4 EXCEPT !.val = <<>>],
        offset, actualCount)

\* if offset > 0 { r.Seek(int64(offset)*2, io.SeekCurrent) } (lines 93-98).
readConformantVaryingString_seek(r3, offset, actualCount) ==
    readConformantVaryingString_elements(
        IF ~IsZero32(offset) THEN [r3 EXCEPT !.pos = PosAdd2x(@, offset)] ELSE r3,
        offset, actualCount)

\* binary.Read(r, le, &actualCount) (lines 88-92).
readConformantVaryingString_actualCount(r3, offset) ==
    IF r3.err # "none" THEN [r3 EXCEPT !.val = <<>>]
    ELSE readConformantVaryingString_seek(r3, offset, W32(r3.val))

\* binary.Read(r, le, &offset) (lines 83-87).
readConformantVaryingString_offset(r2) ==
    IF r2.err # "none" THEN [r2 EXCEPT !.val = <<>>]
    ELSE readConformantVaryingString_actualCount(Read(r2, 4), W32(r2.val))

\* binary.Read(r, le, &maxCount); if maxCount == 0 { return } (lines 73-81).
readConformantVaryingString_maxCount(r1) ==
    IF r1.err # "none" THEN [r1 EXCEPT !.val = <<>>]
    ELSE IF IsZero32(W32(r1.val)) THEN [r1 EXCEPT !.val = <<>>]
    ELSE readConformantVaryingString_offset(Read(r1, 4))

readConformantVaryingString(r0) == readConformantVaryingString_maxCount(Read(r0, 4))

\* The referent ID is looked at: a zero one is taken for a null pointer.
readConformantVaryingStringPtr_NullCheck(r) ==
    IF Avail(r) >= 4 /\ SubSeq(r.buf, r.pos.lo + 1, r.pos.lo + 4) = <<0, 0, 0, 0>>
    THEN [SkipReferentId(r) EXCEPT !.val = <<>>]
    ELSE readConformantVaryingString(SkipReferentId(r))

readConformantVaryingStringPtr(r) == readConformantVaryingString(SkipReferentId(r))

\* readRPCUnicodeStr; the result in r.val is <<s, maxLength>>.
\* return s, maxLength, err behind readConformantVaryingStringPtr.
readRPCUnicodeStr_result(r3, maxLength) == [r3 EXCEPT !.val = <<r3.val, maxLength>>]

\* if l == 0 { r.Seek(4, io.SeekCurrent); return } (lines 522-529).
readRPCUnicodeStr_buffer(r2, l, maxLength) ==
    IF l = 0 THEN [SkipReferentId(r2) EXCEPT !.val = <<<<>>, maxLength>>]
    ELSE readRPCUnicodeStr_result(readConformantVaryingStringPtr(r2), maxLength)

\* binary.Read(r, le, &maxLength)
readRPCUnicodeStr_maxLength(r2, l) ==
    IF r2.err # "none" THEN [r2 EXCEPT !.val = <<<<>>, 0>>]
    ELSE readRPCUnicodeStr_buffer(r2, l, Int16(r2.val))

\* binary.Read(r, le, &l)
readRPCUnicodeStr_length(r1) ==
    IF r1.err # "none" THEN [r1 EXCEPT !.val = <<<<>>, 0>>]
    ELSE readRPCUnicodeStr_maxLength(Read(r1, 2), Int16(r1.val))

readRPCUnicodeStr(r0) == readRPCUnicodeStr_length(Read(r0, 2))

\* s = msdtyp.StripNullByte(s), unless readRPCUnicodeStr failed.
readRRPUnicodeStr_strip(r1) ==
    IF r1.err # "none" THEN r1
    ELSE [r1 EXCEPT !.val = <<StripNullByte(r1.val[1]), r1.val[2]>>]

readRRPUnicodeStr(r0) == readRRPUnicodeStr_strip(readRPCUnicodeStr(r0))

\* msdtyp.ReadConformantVaryingArray: MaxCount, Offset, ActualCount, the
\* bytes, and the padding to a 4-byte boundary.
ReadConformantVaryingArray_padding(r5, offset, actualCount) ==
    IF r5.err # "none" THEN [r5 EXCEPT !.val = <<>>]
    ELSE [SeekCur(r5, (4 - (Add32(offset, actualCount).lo % 4)) % 4)
             EXCEPT !.val = r5.val]

ReadConformantVaryingArray_actualCount(r3, offset) ==
    IF r3.err # "none" THEN [r3 EXCEPT !.val = <<>>]
    ELSE ReadConformantVaryingArray_padding(
             ReadFull([r3 EXCEPT !.pos = PosAdd32(@, offset)], W32(r3.val)),
             offset, W32(r3.val))

ReadConformantVaryingArray_offset(r2) ==
    IF r2.err # "none" THEN [r2 EXCEPT !.val = <<>>]
    ELSE ReadConformantVaryingArray_actualCount(Read(r2, 4), W32(r2.val))

ReadConformantVaryingArray_maxCount(r1) ==
    IF r1.err # "none" THEN [r1 EXCEPT !.val = <<>>]
    ELSE ReadConformantVaryingArray_offset(Read(r1, 4))

ReadConformantVaryingArray(r0) == ReadConformantVaryingArray_maxCount(Read(r0, 4))

\* msdtyp.ReadConformantVaryingArrayPtr: skips the referent ID first.
ReadConformantVaryingArrayPtr(r) == ReadConformantVaryingArray(SkipReferentId(r))

\* msdtyp.SecurityDescriptor.UnmarshalBinary
SecurityDescriptor_UnmarshalBinary(data) ==
    IF Len(data) < 20 THEN [err |-> "Descriptor", sd |-> Null]
    ELSE [err |-> "none",
          sd |-> [Revision |-> data[1], Control |-> data[3] + 256 * data[4],
                  Owner |-> IF Int32(SubSeq(data, 5, 8)) = 0 THEN <<>>
                            ELSE SubSeq(data, 21, Len(data))]]

(***************************************************************************)
(* One statement of an UnmarshalBinary body, applied to the reader and the *)
(* receiver.  An UnmarshalBinary is the sequence of its statements; the    *)
(* first failing statement ends the call.                                  *)
(***************************************************************************)
\* The minimum-length check is missing.
checkMin_NoCheck(r, n) == r

\* if len(buf) < n { return error }, ahead of bytes.NewReader(buf).
checkMin(r, n) == IF Len(r.buf) < n THEN [r EXCEPT !.err = "TooShort"] ELSE r

\* The assignments that follow a read: if err != nil { return }, then the
\* value goes into the receiver.
setU32(r1, f) ==
    IF r1.err # "none" THEN r1 ELSE [r1 EXCEPT !.self[f] = Int32(r1.val)]

setU32Sub(r1, f, g) ==
    IF r1.err # "none" THEN r1 ELSE [r1 EXCEPT !.self[f][g] = Int32(r1.val)]

\* The handle read is not stored in the receiver.
setHKey_Dropped(r1) == r1

\* binary.Read(r, le, &self.HKey) into the 20 bytes made for it.
setHKey(r1) == IF r1.err # "none" THEN r1 ELSE [r1 EXCEPT !.self.HKey = r1.val]

\* self.X.S, self.X.MaxLength, err = readRRPUnicodeStr(r): both fields are
\* assigned whatever err is.
setStr(r1, f) == [r1 EXCEPT !.self[f] = [MaxLength |-> r1.val[2], S |-> r1.val[1]]]

\* self.Data, _, err = msdtyp.ReadConformantVaryingArrayPtr(r)
setData(r1) == [r1 EXCEPT !.self.Data = r1.val]

\* sd.UnmarshalBinary(data); self.SecurityDescriptorOut.SecurityDescriptor = &sd
setSecurityDescriptor(r1, u) ==
    IF u.err # "none" THEN [r1 EXCEPT !.err = u.err]
    ELSE [r1 EXCEPT !.self.SecurityDescriptorOut.SecurityDescriptor = u.sd]

readSecurityDescriptor(r1) ==
    IF r1.err # "none" THEN r1
    ELSE setSecurityDescriptor(r1, SecurityDescriptor_UnmarshalBinary(r1.val))

ApplyR(step, r) ==
    CASE step.op = "Min" -> checkMin(r, step.n)
      [] step.op = "Skip4" -> SkipReferentId(r)
      [] step.op = "U32" -> setU32(Read(r, 4), step.f)
      [] step.op = "U32Sub" -> setU32Sub(Read(r, 4), step.f, step.g)
      [] step.op = "HKey" ->
            setHKey(Read([r EXCEPT !.self.HKey = Zeros(HKeyLen)], HKeyLen))
      [] step.op = "RRPStr" -> setStr(readRRPUnicodeStr(r), step.f)
      [] step.op = "RPCStr" -> setStr(readRPCUnicodeStr(r), step.f)
      [] step.op = "ArrPtr" -> setData(ReadConformantVaryingArrayPtr(r))
      [] step.op = "SeekEnd4" ->
            IF Len(r.buf) < 4 THEN r ELSE [r EXCEPT !.pos = PosOf(Len(r.buf) - 4)]
      [] step.op = "RetIfCode" ->
            IF r.self.ReturnCode # 0 THEN [r EXCEPT !.done = TRUE] ELSE r
      [] step.op = "SeekStart4" ->
            [r EXCEPT !.pos = PosOf(4), !.refs = Append(@, PosOf(0))]
      [] step.op = "SecDesc" -> readSecurityDescriptor(ReadConformantVaryingArray(r))
      [] step.op = "Uint32At0" ->
            IF Len(r.buf) < 4 THEN [r EXCEPT !.err = "panic"]
            ELSE [r EXCEPT !.self.uint32 = Int32(SubSeq(r.buf, 1, 4)), !.nread = 4]
      [] step.op = "NotImpl" -> [r EXCEPT !.err = "NotImplemented"]

Min(n) == [op |-> "Min", n |-> n]

G(f, g) == [op |-> "U32Sub", f |-> f, g |-> g]

ReturnCode_UnmarshalBinary == <<S("Uint32At0")>>

RRPUnicodeStr_UnmarshalBinary == <<Min(20), F("RRPStr", "self")>>

OpenRootKeyReq_UnmarshalBinary == <<F("U32", "ServerName"), F("U32", "DesiredAccess")>>

OpenKeyRes_UnmarshalBinary == <<Min(20), S("HKey"), F("U32", "ReturnCode")>>

BaseRegCloseKeyReq_UnmarshalBinary == <<Min(20), S("HKey")>>

BaseRegCreateKeyRes_UnmarshalBinary ==
    <<Min(28), S("HKey"), S("Skip4"), F("U32", "Disposition"), F("U32", "ReturnCode")>>

BaseRegEnumKeyRes_UnmarshalBinary ==
    <<Min(36), F("RRPStr", "NameOut"), S("Skip4"), F("RRPStr", "ClassOut"), S("Skip4"),
      G("LastWriteTime", "LowDateTime"), G("LastWriteTime", "HighDateTime"),
      F("U32", "ReturnCode")>>

BaseRegEnumValueRes_UnmarshalBinary ==
    <<Min(36), F("RPCStr", "NameOut"), S("Skip4"), F("U32", "Type"), S("ArrPtr"),
      S("Skip4"), F("U32", "DataLen"), S("Skip4"), F("U32", "MaxLen"),
      F("U32", "ReturnCode")>>

\* The descriptor is decoded whatever the return code is.
BaseRegGetKeySecurityRes_UnmarshalBinary_NoReturn ==
    <<Min(16), S("SeekEnd4"), F("U32", "ReturnCode"), S("SeekStart4"),
      G("SecurityDescriptorOut", "InSecurityDescriptor"),
      G("SecurityDescriptorOut", "OutSecurityDescriptor"), S("SecDesc")>>

BaseRegGetKeySecurityRes_UnmarshalBinary ==
    <<Min(16), S("SeekEnd4"), F("U32", "ReturnCode"), S("RetIfCode"), S("SeekStart4"),
      G("SecurityDescriptorOut", "InSecurityDescriptor"),
      G("SecurityDescriptorOut", "OutSecurityDescriptor"), S("SecDesc")>>

BaseRegQueryInfoKeyRes_UnmarshalBinary ==
    <<F("RPCStr", "ClassOut"), F("U32", "SubKeys"), F("U32", "MaxSubKeyLen"),
      F("U32", "MaxClassLen"), F("U32", "Values"), F("U32", "MaxValueNameLen"),
      F("U32", "MaxValueLen"), F("U32", "SecurityDescriptor"),
      G("LastWriteTime", "LowDateTime"), G("LastWriteTime", "HighDateTime"),
      F("U32", "ReturnCode")>>

BaseRegQueryValueRes_UnmarshalBinary ==
    <<S("Skip4"), F("U32", "Type"), S("ArrPtr"), S("Skip4"), F("U32", "DataLen"),
      S("Skip4"), F("U32", "MaxLen"), F("U32", "ReturnCode")>>

\* The request decoder reads the handle into the receiver.
NotImplemented_UnmarshalBinary_Reads == <<S("HKey")>>

\* return fmt.Errorf("NOT IMPLEMENTED UnmarshalBinary for ...")
NotImplemented_UnmarshalBinary == <<S("NotImpl")>>

UnmarshalSteps(typ) ==
    CASE typ \in UnmarshalNotImplemented -> NotImplemented_UnmarshalBinary
      [] typ = "ReturnCode" -> ReturnCode_UnmarshalBinary
      [] typ = "RRPUnicodeStr" -> RRPUnicodeStr_UnmarshalBinary
      [] typ = "OpenRootKeyReq" -> OpenRootKeyReq_UnmarshalBinary
      [] typ = "OpenKeyRes" -> OpenKeyRes_UnmarshalBinary
      [] typ = "BaseRegCloseKeyReq" -> BaseRegCloseKeyReq_UnmarshalBinary
      [] typ = "BaseRegCreateKeyRes" -> BaseRegCreateKeyRes_UnmarshalBinary
      [] typ = "BaseRegEnumKeyRes" -> BaseRegEnumKeyRes_UnmarshalBinary
      [] typ = "BaseRegEnumValueRes" -> BaseRegEnumValueRes_UnmarshalBinary
      [] typ = "BaseRegGetKeySecurityRes" -> BaseRegGetKeySecurityRes_UnmarshalBinary
      [] typ = "BaseRegQueryInfoKeyRes" -> BaseRegQueryInfoKeyRes_UnmarshalBinary
      [] typ = "BaseRegQueryValueRes" -> BaseRegQueryValueRes_UnmarshalBinary

RECURSIVE RunR(_, _, _)
RunR(steps, i, r) ==
    IF i > Len(steps) \/ r.err # "none" \/ r.done THEN r
    ELSE RunR(steps, i + 1, ApplyR(steps[i], r))

\* self.UnmarshalBinary(buf), run to completion.
UnmarshalBinary(self, buf) == RunR(UnmarshalSteps(self.typ), 1, NewReader(buf, self))

\* The zero value of a receiver type.
ZeroStr == [MaxLength |-> 0, S |-> <<>>]

ZeroTime == [LowDateTime |-> 0, HighDateTime |-> 0]

ZeroOf(typ) ==
    CASE typ = "ReturnCode" -> [typ |-> typ, uint32 |-> 0]
      [] typ = "RRPUnicodeStr" -> [typ |-> typ, self |-> ZeroStr]
      [] typ = "OpenRootKeyReq" -> [typ |-> typ, ServerName |-> 0, DesiredAccess |-> 0]
      [] typ = "OpenKeyRes" -> [typ |-> typ, HKey |-> <<>>, ReturnCode |-> 0]
      [] typ = "BaseRegCloseKeyReq" -> [typ |-> typ, HKey |-> <<>>]
      [] typ = "BaseRegCreateKeyRes" ->
            [typ |-> typ, HKey |-> <<>>, Disposition |-> 0, ReturnCode |-> 0]
      [] typ = "BaseRegEnumKeyRes" ->
            [typ |-> typ, NameOut |-> ZeroStr, ClassOut |-> ZeroStr,
             LastWriteTime |-> ZeroTime, ReturnCode |-> 0]
      [] typ = "BaseRegEnumValueRes" ->
            [typ |-> typ, NameOut |-> ZeroStr, Type |-> 0, Data |-> <<>>,
             DataLen |-> 0, MaxLen |-> 0, ReturnCode |-> 0]
      [] typ = "BaseRegGetKeySecurityRes" ->
            [typ |-> typ,
             SecurityDescriptorOut |-> [SecurityDescriptor |-> Null,
                                        InSecurityDescriptor |-> 0,
                                        OutSecurityDescriptor |-> 0],
             ReturnCode |-> 0]
      [] typ = "BaseRegQueryInfoKeyRes" ->
            [typ |-> typ, ClassOut |-> ZeroStr, SubKeys |-> 0, MaxSubKeyLen |-> 0,
             MaxClassLen |-> 0, Values |-> 0, MaxValueNameLen |-> 0, MaxValueLen |-> 0,
             SecurityDescriptor |-> 0, LastWriteTime |-> ZeroTime, ReturnCode |-> 0]
      [] typ = "BaseRegQueryValueRes" ->
            [typ |-> typ, Type |-> 0, Data |-> <<>>, DataLen |-> 0, MaxLen |-> 0,
             ReturnCode |-> 0]

(***************************************************************************)
(* Inputs of the calls.                                                    *)
(***************************************************************************)
\* NUL, 'A', U+00E9 (2 bytes of UTF-8), U+4E2D (3 bytes of UTF-8).
Chars == {0, 65, 233, 20013}

Strings(n) == UNION {[1..k -> Chars] : k \in 0..n}

\* A string whose terminated length is 2^15: uint16(len)*2 wraps to 0.
WrapLen == (2 ^ 15) - 1

LongStr == [i \in 1..WrapLen |-> 65]

MaxLengths == {0, 1, 3, 32767, 32768, 65535}

UStr == [MaxLength : MaxLengths, S : Strings(MaxStrLen)]

UStrFew == [MaxLength : {0, 2}, S : Strings(1)]

Handle(n, k) == [i \in 1..n |-> (k + i) % 256]

HKeys == {Handle(n, k) : n \in {0, 19, 20, 21}, k \in {0, 200}}

HKeysFew == {Handle(20, 0), Handle(19, 0), Handle(21, 200)}

Descriptors ==
    {[Revision |-> 1, Control |-> 32772, Owner |-> <<>>],
     [Revision |-> 1, Control |-> 32768, Owner |-> <<1, 1, 0, 0, 0, 0, 0, 5, 18, 0>>]}

RpcSecurityDescriptors ==
    [SecurityDescriptor : Descriptors \cup {Null},
     InSecurityDescriptor : {0, 4096}, OutSecurityDescriptor : {0, 7}]

RpcSecurityAttributesSet ==
    {[Length |-> l, SecurityDescriptor |-> d, InheritHandle |-> h] :
        l \in {0, 64}, h \in {0, 1},
        d \in {x \in RpcSecurityDescriptors :
                 x.SecurityDescriptor # Null /\ x.InSecurityDescriptor = 0
                 /\ x.OutSecurityDescriptor = 0}}

Filetimes == {[LowDateTime |-> 0, HighDateTime |-> 0],
              [LowDateTime |-> 1430159488, HighDateTime |-> 27111902]}

DataSet == {<<>>, <<1>>, <<1, 2, 3, 4>>, <<1, 2, 3, 4, 5>>}

Codes == {0, 2, 5, 259}

ReqsOf(typ) ==
    CASE typ = "RRPUnicodeStr" ->
            {[typ |-> typ, self |-> u] :
                u \in UStr \cup {[MaxLength |-> m, S |-> LongStr] : m \in {WrapLen, 65535}}}
      [] typ = "OpenRootKeyReq" ->
            {[typ |-> typ, ServerName |-> 0, DesiredAccess |-> a] : a \in {0, 33554432}}
      [] typ = "OpenKeyRes" ->
            {[typ |-> typ, HKey |-> h, ReturnCode |-> c] : h \in HKeys, c \in Codes}
      [] typ = "BaseRegCloseKeyReq" -> {[typ |-> typ, HKey |-> h] : h \in HKeys}
      [] typ = "BaseRegCreateKeyReq" ->
            {[typ |-> typ, HKey |-> h, SubKey |-> u, Class |-> v, Options |-> 0,
              DesiredAccess |-> 131097, SecurityAttr |-> sa, Disposition |-> d] :
                h \in HKeysFew, u \in UStrFew, v \in UStrFew,
                sa \in {Null} \cup {x \in RpcSecurityAttributesSet :
                                      x.Length = 0 /\ x.InheritHandle = 1},
                d \in {0, 1}}
      [] typ = "BaseRegDeleteKeyReq" ->
            {[typ |-> typ, HKey |-> h, SubKey |-> u] : h \in HKeysFew, u \in UStr}
      [] typ = "BaseRegDeleteValueReq" ->
            {[typ |-> typ, HKey |-> h, ValueName |-> u] : h \in HKeysFew, u \in UStr}
      [] typ = "BaseRegEnumKeyReq" ->
            {[typ |-> typ, HKey |-> h, Index |-> 1, NameIn |-> u, ClassIn |-> v,
              LastWriteTime |-> t] :
                h \in HKeysFew, u \in UStrFew, v \in UStrFew,
                t \in {Null} \cup Filetimes}
      [] typ = "BaseRegEnumValueReq" ->
            {[typ |-> typ, HKey |-> h, Index |-> 0, NameIn |-> u, Type |-> 1,
              Data |-> d, MaxLen |-> m, DataLen |-> n] :
                h \in HKeysFew, u \in UStrFew, d \in DataSet, m \in {0, 1024},
                n \in {0, 7}}
      [] typ = "BaseRegGetKeySecurityReq" ->
            {[typ |-> typ, HKey |-> h, SecurityInformation |-> 4,
              SecurityDescriptorIn |-> sd] : h \in HKeys, sd \in RpcSecurityDescriptors}
      [] typ = "BaseRegOpenKeyReq" ->
            {[typ |-> typ, HKey |-> h, SubKey |-> u, Options |-> o,
              DesiredAccess |-> 131097] : h \in HKeysFew, u \in UStr, o \in {0, 1}}
      [] typ = "BaseRegQueryInfoKeyReq" ->
            {[typ |-> typ, HKey |-> h, ClassIn |-> u] : h \in HKeysFew, u \in UStr}
      [] typ = "BaseRegQueryValueReq" ->
            {[typ |-> typ, HKey |-> h, ValueName |-> u, Type |-> 0,
              Data |-> d, MaxLen |-> m, DataLen |-> n] :
                h \in HKeysFew, u \in UStrFew, d \in DataSet, m \in {0, 1024},
                n \in {0, 7}}
      [] typ = "BaseRegSaveKeyReq" ->
            {[typ |-> typ, HKey |-> h, FileName |-> u, SecurityAttributes |-> sa] :
                h \in HKeysFew, u \in UStrFew, sa \in RpcSecurityAttributesSet}
      [] typ = "BaseRegSetKeySecurityReq" ->
            {[typ |-> typ, HKey |-> h, SecurityInformation |-> 4,
              SecurityDescriptorIn |-> sd] : h \in HKeys, sd \in RpcSecurityDescriptors}
      [] typ = "BaseRegSetValueReq" ->
            {[typ |-> typ, HKey |-> h, ValueName |-> u, Type |-> 4,
              Data |-> d, DataLen |-> n] :
                h \in HKeysFew, u \in UStrFew, d \in DataSet, n \in {0, 7}}

(***************************************************************************)
(* Response buffers as a server puts them on the wire (section 6 of the    *)
(* specification): the inputs of the decoders.                             *)
(***************************************************************************)
\* Referent IDs as servers assign them.
SrvRef == 2 ^ 17

\* An RPC_UNICODE_STRING with its buffer: Length, MaximumLength, pointer and,
\* behind a non-null pointer, the conformant-varying array and its padding.
WireStr(u) ==
    LE16(2 * Len(u.S)) \o LE16(2 * u.MaxLength)
    \o (IF u.form = "null" THEN LE32(0)
        ELSE LE32(SrvRef) \o LE32(u.MaxLength) \o LE32(0) \o LE32(Len(u.S))
             \o ToUnicode(u.S) \o Zeros(PaddLen(0, Len(u.S))))

WireArrPtr(data, maxCount) ==
    LE32(SrvRef + 4) \o LE32(maxCount) \o LE32(0) \o LE32(Len(data)) \o data
    \o Zeros(ArrPadd(Len(data)))

WireStrs(n) ==
    {[S |-> x, MaxLength |-> Len(x) + m, form |-> "array"] :
        x \in Strings(n), m \in {0, 260}}
    \cup {[S |-> <<>>, MaxLength |-> m, form |-> "null"] : m \in {0, 260}}

WireTime == LE32(1430159488) \o LE32(27111902)

\* A few strings: empty behind a null pointer, empty behind an array,
\* a terminated and an unterminated name.
FewStrs ==
    {[S |-> <<>>, MaxLength |-> 0, form |-> "null"],
     [S |-> <<>>, MaxLength |-> 260, form |-> "array"],
     [S |-> <<65, 0>>, MaxLength |-> 2, form |-> "array"],
     [S |-> <<65>>, MaxLength |-> 260, form |-> "array"]}

WireGen(typ, few) ==
    LET names == IF few THEN FewStrs ELSE WireStrs(MaxStrLen)
        codes == IF few THEN {0, 259} ELSE Codes
        datas == IF few THEN {<<>>, <<1, 2, 3, 4, 5>>} ELSE DataSet
        extra == IF few THEN {0} ELSE {0, 1024}
        hkeys == IF few THEN {Handle(20, 0)} ELSE {Handle(20, 0), Handle(20, 200)}
    IN
    CASE typ = "ReturnCode" -> {LE32(c) : c \in codes}
      [] typ = "RRPUnicodeStr" -> {WireStr(u) : u \in names}
      [] typ = "OpenRootKeyReq" -> {LE32(0) \o LE32(33554432)}
      [] typ = "OpenKeyRes" -> {h \o LE32(c) : h \in hkeys, c \in codes}
      [] typ = "BaseRegCloseKeyReq" -> hkeys
      [] typ = "BaseRegCreateKeyRes" ->
            {h \o d \o LE32(c) :
                h \in hkeys, c \in codes,
                d \in {LE32(0), LE32(SrvRef) \o LE32(1), LE32(SrvRef) \o LE32(2)}}
      [] typ = "BaseRegEnumKeyRes" ->
            {WireStr(n) \o LE32(SrvRef + 4) \o WireStr(k) \o LE32(SrvRef + 8)
               \o WireTime \o LE32(c) :
                n \in names, c \in codes,
                k \in {x \in FewStrs : few => x.S = <<>>}}
      [] typ = "BaseRegEnumValueRes" ->
            {WireStr(n) \o LE32(SrvRef + 8) \o LE32(1) \o WireArrPtr(d, Len(d) + m)
               \o LE32(SrvRef + 12) \o LE32(Len(d) + m) \o LE32(SrvRef + 16)
               \o LE32(Len(d)) \o LE32(c) :
                n \in IF few THEN {x \in FewStrs : x.form = "array"} ELSE WireStrs(1),
                d \in datas, m \in extra, c \in codes}
      [] typ = "BaseRegGetKeySecurityRes" ->
            {LE32(SrvRef) \o LE32(4096) \o LE32(Len(b)) \o LE32(Len(b)) \o LE32(0)
               \o LE32(Len(b)) \o b \o Zeros(ArrPadd(Len(b))) \o LE32(c) :
                b \in {SecurityDescriptor_MarshalBinary(d) : d \in Descriptors},
                c \in codes}
            \cup {LE32(0) \o LE32(m) \o LE32(0) \o LE32(c) :
                    m \in {0, 4096}, c \in codes \ {0}}
      [] typ = "BaseRegQueryInfoKeyRes" ->
            {WireStr(n) \o LE32(3) \o LE32(12) \o LE32(0) \o LE32(2) \o LE32(20)
               \o LE32(64) \o LE32(160) \o WireTime \o LE32(c) :
                n \in names, c \in codes}
      [] typ = "BaseRegQueryValueRes" ->
            {LE32(SrvRef) \o LE32(t) \o WireArrPtr(d, Len(d) + m)
               \o LE32(SrvRef + 8) \o LE32(Len(d) + m) \o LE32(SrvRef + 12)
               \o LE32(Len(d)) \o LE32(c) :
                t \in {1, 4}, d \in datas, m \in extra, c \in codes}

\* The well-formed responses, and the few whose truncations are decoded too.
WireOf(typ) == WireGen(typ, FALSE)

WireFew(typ) == WireGen(typ, TRUE)

\* The status code of a response buffer: its final four bytes.
CodeOf(b) == Int32(SubSeq(b, Len(b) - 3, Len(b)))

Prefixes(B) == UNION {{SubSeq(b, 1, k) : k \in 0..(Len(b) - 1)} : b \in B}

\* Conformant-varying strings with chosen Offset and ActualCount fields,
\* as four wire bytes each, behind the header of an RPC_UNICODE_STRING.
Counts32 ==
    {<<0, 0, 0, 0>>, <<1, 0, 0, 0>>, <<2, 0, 0, 0>>, <<3, 0, 0, 0>>,
     <<0, 0, 0, 128>>, <<1, 0, 0, 128>>, <<255, 255, 255, 255>>}

CraftedStrs ==
    {LE16(2) \o LE16(2) \o LE32(SrvRef) \o LE32(1) \o off \o cnt \o tail :
        off \in Counts32, cnt \in Counts32,
        tail \in {<<>>, <<65, 0>>, <<65, 0, 66, 0, 67, 0, 68, 0, 69, 0, 70, 0, 0, 0>>}}

UnmarshalTypes ==
    {"ReturnCode", "RRPUnicodeStr", "OpenRootKeyReq", "OpenKeyRes",
     "BaseRegCloseKeyReq", "BaseRegCreateKeyRes", "BaseRegEnumKeyRes",
     "BaseRegEnumValueRes", "BaseRegGetKeySecurityRes", "BaseRegQueryInfoKeyRes",
     "BaseRegQueryValueRes"}

BufsOf(typ) ==
    {[b |-> b, wf |-> TRUE] : b \in WireOf(typ)}
    \cup {[b |-> b, wf |-> FALSE] : b \in Prefixes(WireFew(typ)) \ WireOf(typ)}
    \cup (IF typ = "RRPUnicodeStr"
          THEN {[b |-> b, wf |-> FALSE] : b \in CraftedStrs} ELSE {})

\* A receiver is a fresh value or one that an earlier response was decoded into.
UsedOf(typ) ==
    LET w == CHOOSE b \in WireOf(typ) :
                 LET r == UnmarshalBinary(ZeroOf(typ), b)
                 IN r.err = "none" /\ r.self # ZeroOf(typ)
    IN UnmarshalBinary(ZeroOf(typ), w).self

ReceiversOf(typ) == {ZeroOf(typ), UsedOf(typ)}

MarshalTypes ==
    {"RRPUnicodeStr", "OpenRootKeyReq", "OpenKeyRes", "BaseRegCloseKeyReq",
     "BaseRegCreateKeyReq", "BaseRegDeleteKeyReq", "BaseRegDeleteValueReq",
     "BaseRegEnumKeyReq", "BaseRegEnumValueReq", "BaseRegGetKeySecurityReq",
     "BaseRegOpenKeyReq", "BaseRegQueryInfoKeyReq", "BaseRegQueryValueReq",
     "BaseRegSaveKeyReq", "BaseRegSetKeySecurityReq", "BaseRegSetValueReq"}

\* The values MarshalBinary is called on: requests, and responses as an
\* earlier decode left them.
ValuesOf(typ) == IF typ \in MarshalTypes THEN ReqsOf(typ) ELSE ReceiversOf(typ)

\* A request value that is filled in, as the receiver of UnmarshalBinary.
RequestOf(typ) == CHOOSE q \in ReqsOf(typ) : Len(q.HKey) = 20

\* The receivers and buffers UnmarshalBinary is called with.
UnmarshalReceivers(typ) ==
    IF typ \in UnmarshalTypes THEN ReceiversOf(typ) ELSE {RequestOf(typ)}

UnmarshalBufs(typ) ==
    IF typ \in UnmarshalTypes THEN BufsOf(typ)
    ELSE {[b |-> b, wf |-> FALSE] :
             b \in {<<>>, <<1, 2, 3>>, MarshalBinary(RequestOf(typ)).b}}

(***************************************************************************)
(* The codec used by one caller: a call is made, its result is inspected,  *)
(* and the caller goes on to the next call.                                *)
(***************************************************************************)
Init ==
    /\ pc = "idle"
    /\ enc = Null
    /\ dec = Null
    /\ calls = <<>>
    /\ refCell = <<>>
    /\ prog = <<>>

\* What the caller holds after x.MarshalBinary(): the request as it was, the
\* request as the call left it, the bytes and the error.
Encoding(req, st) ==
    [req0 |-> req, req |-> st.req, b |-> st.b, refs |-> st.refs,
     strs |-> st.strs, err |-> st.err]

\* What the caller holds after x.UnmarshalBinary(buf).
Decoding(typ, buf, wf, self, r) ==
    [typ |-> typ, buf |-> buf, wf |-> wf, self0 |-> self, self |-> r.self,
     err |-> r.err, nread |-> r.nread, pos |-> r.pos, cvs |-> r.cvs,
     refs |-> r.refs]

\* x.MarshalBinary() for a request (or OpenKeyRes) value x.
Marshal ==
    /\ pc = "idle"
    /\ \E typ \in MarshalTypes \cup MarshalNotImplemented : \E req \in ValuesOf(typ) :
          enc' = Encoding(req, MarshalBinary(req))
    /\ pc' = "encoded"
    /\ UNCHANGED <<dec, calls, refCell, prog>>

\* The caller drops the results of the call.
Release ==
    /\ pc # "idle"
    /\ pc' = "idle"
    /\ enc' = Null
    /\ dec' = Null
    /\ UNCHANGED <<calls, refCell, prog>>

\* x.UnmarshalBinary(buf) on a buffer received from the transport.
Unmarshal ==
    /\ pc = "idle"
    /\ \E typ \in UnmarshalTypes \cup UnmarshalNotImplemented :
          \E self \in UnmarshalReceivers(typ) : \E in \in UnmarshalBufs(typ) :
          dec' = Decoding(typ, in.b, in.wf, self, UnmarshalBinary(self, in.b))
    /\ pc' = "decoded"
    /\ UNCHANGED <<enc, calls, refCell, prog>>

\* x.UnmarshalBinary(b) on the bytes b that the last MarshalBinary returned.
UnmarshalEncoded ==
    /\ pc = "encoded"
    /\ enc.err = "none"
    /\ enc.req0.typ \in UnmarshalTypes
    /\ dec' = Decoding(enc.req0.typ, enc.b, FALSE, ZeroOf(enc.req0.typ),
                        UnmarshalBinary(ZeroOf(enc.req0.typ), enc.b))
    /\ pc' = "roundtrip"
    /\ UNCHANGED <<enc, calls, refCell, prog>>

Next == Marshal \/ Unmarshal \/ UnmarshalEncoded \/ Release

Spec == Init /\ [][Next]_vars

(***************************************************************************)
(* Several MarshalBinary calls in flight at once (one per goroutine of the *)
(* caller), each on its own request value.  A call advances one statement  *)
(* at a time; its referent-ID counter lives in a memory cell.              *)
(***************************************************************************)
Callers == 1..NCalls

\* One counter shared by all calls.
RefCell_Shared(c) == 1

\* refId := uint32(1) declares a variable local to the call: a cell of its own.
RefCell(c) == c

ConcReqs ==
    {[typ |-> "RRPUnicodeStr", self |-> [MaxLength |-> 0, S |-> <<65>>]],
     [typ |-> "BaseRegEnumKeyReq", HKey |-> Handle(20, 0), Index |-> 1,
      NameIn |-> [MaxLength |-> 2, S |-> <<>>], ClassIn |-> [MaxLength |-> 2, S |-> <<>>],
      LastWriteTime |-> ZeroTime],
     [typ |-> "BaseRegQueryValueReq", HKey |-> Handle(20, 200),
      ValueName |-> [MaxLength |-> 0, S |-> <<65, 233>>], Type |-> 0,
      Data |-> <<>>, MaxLen |-> 1024, DataLen |-> 0]}

IdleCall == [state |-> "idle"]

InitConc ==
    /\ pc = "idle"
    /\ enc = Null
    /\ dec = Null
    /\ calls = [c \in Callers |-> IdleCall]
    /\ refCell = [c \in Callers |-> 0]
    /\ prog = <<>>

\* A goroutine enters MarshalBinary.
Begin(c) ==
    /\ calls[c].state = "idle"
    /\ \E req \in ConcReqs :
          calls' = [calls EXCEPT ![c] = [state |-> "running", req0 |-> req,
                                         st |-> NewW(req), i |-> 1,
                                         overlapped |-> FALSE]]
    /\ UNCHANGED <<pc, enc, dec, refCell, prog>>

\* The call executes its next statement.
StepCall(c) ==
    /\ calls[c].state = "running"
    /\ calls[c].i <= Len(MarshalSteps(calls[c].req0.typ))
    /\ calls[c].st.err = "none"
    /\ LET cur == [calls[c].st EXCEPT !.refId = refCell[RefCell(c)]]
           nxt == ApplyW(MarshalSteps(calls[c].req0.typ)[calls[c].i], cur)
       IN /\ calls' = [calls EXCEPT
                         ![c].st = [nxt EXCEPT !.refId = 0],
                         ![c].i = @ + 1,
                         ![c].overlapped =
                             @ \/ \E d \in Callers \ {c} : calls[d].state = "running"]
          /\ refCell' = [refCell EXCEPT ![RefCell(c)] = nxt.refId]
    /\ UNCHANGED <<pc, enc, dec, prog>>

\* The call returns its bytes (or its error).
Return(c) ==
    /\ calls[c].state = "running"
    /\ \/ calls[c].i > Len(MarshalSteps(calls[c].req0.typ))
       \/ calls[c].st.err # "none"
    /\ calls' = [calls EXCEPT ![c].state = "done"]
    /\ UNCHANGED <<pc, enc, dec, refCell, prog>>

NextConc == \E c \in Callers : Begin(c) \/ StepCall(c) \/ Return(c)

SpecConc == InitConc /\ [][NextConc]_vars

(***************************************************************************)
(* Properties.                                                             *)
(***************************************************************************)
Encoded == pc \in {"encoded", "roundtrip"}

Decoded == pc = "decoded"

HandleTypes ==
    {"OpenKeyRes", "BaseRegCloseKeyReq", "BaseRegCreateKeyReq", "BaseRegDeleteKeyReq",
     "BaseRegDeleteValueReq", "BaseRegEnumKeyReq", "BaseRegEnumValueReq",
     "BaseRegGetKeySecurityReq", "BaseRegOpenKeyReq", "BaseRegQueryInfoKeyReq",
     "BaseRegQueryValueReq", "BaseRegSaveKeyReq", "BaseRegSetKeySecurityReq",
     "BaseRegSetValueReq"}

\* C1: MarshalBinary of a type that carries a key handle, called with a
\* handle whose length is not 20, returns an error and no output bytes; with
\* a 20-byte handle the output that it returns starts with the 20 handle bytes.
C1_HandleLength ==
    (Encoded /\ enc.req0.typ \in HandleTypes) =>
        /\ Len(enc.req0.HKey) # 20 => (enc.err = "InvalidHandle" /\ enc.b = <<>>)
        /\ (Len(enc.req0.HKey) = 20 /\ enc.err = "none") =>
              (Len(enc.b) >= 20 /\ SubSeq(enc.b, 1, 20) = enc.req0.HKey)

C1_Witness ==
    /\ Encoded
    /\ enc.req0.typ = "BaseRegSetValueReq"
    /\ Len(enc.req0.HKey) = 21
    /\ enc.err = "InvalidHandle"

\* C2: for every string S without null characters and every MaxLength >=
\* length(S), decoding the bytes of RRPUnicodeStr{MaxLength, S}.MarshalBinary
\* with RRPUnicodeStr.UnmarshalBinary succeeds and yields exactly S.
C2_RoundTrip ==
    (/\ pc = "roundtrip"
     /\ enc.req0.typ = "RRPUnicodeStr"
     /\ \A i \in DOMAIN enc.req0.self.S : enc.req0.self.S[i] # 0
     /\ enc.req0.self.MaxLength >= Len(enc.req0.self.S)) =>
        (dec.err = "none" /\ dec.self.self.S = enc.req0.self.S)

\* The padding that the exact (unbounded) byte count Offset*2 + ActualCount*2
\* calls for; 2^16 is a multiple of 4, so only the low limbs matter.
ExactPad(offset, count) == (4 - ((2 * offset.lo + 2 * count.lo) % 4)) % 4

\* C3: every successful readConformantVaryingString leaves the read position
\* exactly (4 - (Offset*2 + ActualCount*2) mod 4) mod 4 bytes past the end of
\* the element bytes, also when the 32-bit products wrap; and every string
\* the encoder writes is followed by exactly that many zero bytes.
C3_Padding ==
    /\ Decoded =>
          \A i \in DOMAIN dec.cvs :
              dec.cvs[i].end
                  = PosAdd(dec.cvs[i].elemEnd,
                           ExactPad(dec.cvs[i].offset, dec.cvs[i].actualCount))
    /\ (Encoded /\ enc.err = "none") =>
          \A i \in DOMAIN enc.strs :
              LET e == enc.strs[i]
              IN /\ e.end - e.elemEnd = ExactPad(PosOf(e.offset), PosOf(e.count))
                 /\ \A k \in (e.elemEnd + 1)..e.end : enc.b[k] = 0

C3_Witness ==
    /\ Decoded
    /\ dec.err = "none"
    /\ \E i \in DOMAIN dec.cvs :
          /\ dec.cvs[i].offset.hi >= 32768
          /\ dec.cvs[i].offset.lo % 2 = 1
          /\ dec.cvs[i].end = PosAdd(dec.cvs[i].elemEnd, 2)

\* The RPC_UNICODE_STRING header that follows the handle (or starts the
\* stream of a bare RRPUnicodeStr).
StrFirstTypes ==
    {"RRPUnicodeStr", "BaseRegDeleteKeyReq", "BaseRegDeleteValueReq",
     "BaseRegOpenKeyReq", "BaseRegQueryInfoKeyReq"}

StrAt == IF enc.req0.typ = "RRPUnicodeStr" THEN 0 ELSE 20

StrField ==
    CASE enc.req0.typ = "RRPUnicodeStr" -> "self"
      [] enc.req0.typ = "BaseRegDeleteKeyReq" -> "SubKey"
      [] enc.req0.typ = "BaseRegDeleteValueReq" -> "ValueName"
      [] enc.req0.typ = "BaseRegOpenKeyReq" -> "SubKey"
      [] enc.req0.typ = "BaseRegQueryInfoKeyReq" -> "ClassIn"

WireLength == Int16(SubSeq(enc.b, StrAt + 1, StrAt + 2))

WireMaximumLength == Int16(SubSeq(enc.b, StrAt + 3, StrAt + 4))

\* C4: the 16-bit MaximumLength field that writeRRPUnicodeStr puts on the
\* wire is never smaller than the 16-bit Length field it puts on the wire.
C4_MaxNotBelowLength ==
    (Encoded /\ enc.err = "none" /\ enc.req0.typ \in StrFirstTypes) =>
        WireMaximumLength >= WireLength

\* C5: an empty string is encoded as Length 0, the caller's MaxLength doubled
\* (in uint16), then a null pointer when the field is optional, else a
\* referent ID and a conformant-varying header with ActualCount 0; no
\* character, terminator or padding bytes follow.
C5_EmptyString ==
    (/\ Encoded
     /\ enc.err = "none"
     /\ enc.req0.typ \in StrFirstTypes \ {"BaseRegOpenKeyReq"}
     /\ enc.req0[StrField].S = <<>>) =>
        LET ml == enc.req0[StrField].MaxLength
            tail == SubSeq(enc.b, StrAt + 1, Len(enc.b))
        IN IF enc.req0.typ = "BaseRegQueryInfoKeyReq"
           THEN tail = LE16(0) \o LE16(U16(2 * ml)) \o LE32(0)
           ELSE tail = LE16(0) \o LE16(U16(2 * ml)) \o LE32(1)
                       \o LE32(ml) \o LE32(0) \o LE32(0)

C5_Witness ==
    /\ Encoded
    /\ enc.err = "none"
    /\ enc.req0.typ = "BaseRegDeleteKeyReq"
    /\ enc.req0.SubKey.S = <<>>
    /\ enc.req0.SubKey.MaxLength = 3
    /\ Len(enc.b) = 40

\* The request holds a pointer field without data.
AbsentData(req) ==
    CASE req.typ = "BaseRegQueryInfoKeyReq" -> req.ClassIn.S = <<>>
      [] req.typ = "BaseRegCreateKeyReq" -> req.SecurityAttr = Null \/ req.Disposition = 0
      [] req.typ \in {"BaseRegGetKeySecurityReq", "BaseRegSetKeySecurityReq"} ->
            req.SecurityDescriptorIn.SecurityDescriptor = Null
      [] OTHER -> FALSE

NonNull(refs) == SelectSeq(refs, LAMBDA x : ~x.absent)

\* C6: within one encoded request the non-null referent IDs are non-zero,
\* start at 1 and strictly increase in stream order, and the value 0 is
\* written only in the pointer slot of a field whose data is absent.
C6_ReferentIds ==
    (Encoded /\ enc.err = "none") =>
        LET nn == NonNull(enc.refs)
        IN /\ \A i \in DOMAIN enc.refs :
                 /\ SubSeq(enc.b, enc.refs[i].at + 1, enc.refs[i].at + 4)
                        = LE32(enc.refs[i].v)
                 /\ enc.refs[i].v = 0 => (enc.refs[i].absent /\ AbsentData(enc.req0))
           /\ \A i \in DOMAIN nn : nn[i].v # 0
           /\ nn # <<>> => nn[1].v = 1
           /\ \A i, j \in DOMAIN nn : i < j => nn[i].v < nn[j].v

C6_Witness ==
    /\ Encoded
    /\ enc.err = "none"
    /\ enc.req0.typ = "BaseRegCreateKeyReq"
    /\ Len(NonNull(enc.refs)) = 3
    /\ \E i \in DOMAIN enc.refs : enc.refs[i].v = 0

\* The response types and the length of the fixed-size part of each.
ResTypes ==
    {"OpenKeyRes", "BaseRegCreateKeyRes", "BaseRegEnumKeyRes", "BaseRegEnumValueRes",
     "BaseRegGetKeySecurityRes", "BaseRegQueryInfoKeyRes", "BaseRegQueryValueRes"}

FixedPrefix(typ) ==
    CASE typ = "OpenKeyRes" -> 20
      [] typ = "BaseRegCloseKeyReq" -> 20
      [] typ = "RRPUnicodeStr" -> 20
      [] typ = "BaseRegCreateKeyRes" -> 28
      [] typ = "BaseRegEnumKeyRes" -> 36
      [] typ = "BaseRegEnumValueRes" -> 36
      [] typ = "BaseRegGetKeySecurityRes" -> 16
      [] typ = "BaseRegQueryInfoKeyRes" -> 48
      [] typ = "BaseRegQueryValueRes" -> 32

\* C8: UnmarshalBinary of every response type checks the buffer against a
\* minimum length before it reads any field, and fails when it is shorter.
C8_MinLengthChecked ==
    (Decoded /\ dec.typ \in ResTypes /\ Len(dec.buf) < FixedPrefix(dec.typ)) =>
        (dec.err # "none" /\ dec.nread = 0 /\ dec.self = dec.self0)

DeclaredMinTypes ==
    {"OpenKeyRes", "BaseRegCloseKeyReq", "BaseRegCreateKeyRes", "BaseRegEnumKeyRes",
     "BaseRegEnumValueRes", "BaseRegGetKeySecurityRes", "RRPUnicodeStr"}

\* C9: a decoder that declares a minimum length, given a shorter buffer,
\* returns an error, reads no byte and leaves its receiver unchanged.
C9_ShortBufferUntouched ==
    (Decoded /\ dec.typ \in DeclaredMinTypes /\ Len(dec.buf) < FixedPrefix(dec.typ)) =>
        /\ dec.err = "TooShort"
        /\ dec.nread = 0
        /\ dec.pos = PosOf(0)
        /\ dec.self = dec.self0

C9_Witness ==
    /\ Decoded
    /\ dec.typ = "BaseRegCreateKeyRes"
    /\ Len(dec.buf) = 27
    /\ dec.self0 # ZeroOf(dec.typ)
    /\ dec.err = "TooShort"

\* C10: UnmarshalBinary of a well-formed response whose status code is not
\* zero returns no error and ReturnCode equals that code.
C10_NonZeroCodeDecodes ==
    (Decoded /\ dec.typ \in ResTypes /\ dec.wf /\ CodeOf(dec.buf) # 0) =>
        (dec.err = "none" /\ dec.self.ReturnCode = CodeOf(dec.buf))

\* C7: whatever the interleaving of MarshalBinary calls on distinct request
\* values, every call returns exactly the bytes it returns when it runs
\* alone, and its first referent ID is 1.
C7_CounterIsLocal ==
    \A c \in DOMAIN calls :
        calls[c].state = "done" =>
            /\ calls[c].st.b = MarshalBinary(calls[c].req0).b
            /\ calls[c].st.err = MarshalBinary(calls[c].req0).err
            /\ NonNull(calls[c].st.refs) # <<>> => NonNull(calls[c].st.refs)[1].v = 1

C7_Witness ==
    \E c, d \in DOMAIN calls :
        /\ c # d
        /\ calls[c].state = "done"
        /\ calls[c].overlapped
        /\ Len(calls[c].st.refs) >= 3
        /\ calls[d].state = "done"
        /\ calls[d].overlapped
        /\ Len(calls[d].st.refs) >= 3

\* C11: whenever UnmarshalBinary of a response type returns without error,
\* the decoded ReturnCode is the little-endian 32-bit value of the final four
\* bytes of the input buffer.
C11_ReturnCodeIsLastWord ==
    (Decoded /\ dec.typ \in ResTypes /\ dec.err = "none") =>
        (Len(dec.buf) >= 4 /\ dec.self.ReturnCode = CodeOf(dec.buf))

RequestTypes ==
    {"OpenRootKeyReq", "BaseRegCloseKeyReq"} \cup UnmarshalNotImplemented

\* The call in the direction that is not implemented: a 'not implemented'
\* error, no byte read or written, the receiver as it was.
DecodeRefused ==
    /\ dec.err = "NotImplemented"
    /\ dec.nread = 0
    /\ dec.self = dec.self0

EncodeRefused ==
    /\ enc.err = "NotImplemented"
    /\ enc.b = <<>>
    /\ enc.req = enc.req0

\* C12 as stated: UnmarshalBinary on every request type and MarshalBinary on
\* every response type returns 'not implemented', for every input.
C12_Directionality ==
    /\ (Decoded /\ dec.typ \in RequestTypes) => DecodeRefused
    /\ (Encoded /\ enc.req0.typ \in ResTypes) => EncodeRefused

\* C12 as amended: the same for every request type but OpenRootKeyReq and
\* BaseRegCloseKeyReq and every response type but OpenKeyRes, which
\* implement both directions.
C12_DirectionalityButHandles ==
    /\ (Decoded /\ dec.typ \in RequestTypes \ {"OpenRootKeyReq", "BaseRegCloseKeyReq"})
          => DecodeRefused
    /\ (Encoded /\ enc.req0.typ \in ResTypes \ {"OpenKeyRes"}) => EncodeRefused

C12_Witness ==
    /\ Decoded
    /\ dec.typ = "BaseRegOpenKeyReq"
    /\ Len(dec.buf) > 20
    /\ dec.err = "NotImplemented"

\* The layout of an encoded BaseRegOpenKeyReq: the handle, the string header
\* (Length, MaximumLength), referent ID 1, MaxCount, Offset 0, ActualCount,
\* the sub-key in UTF-16LE ending in one null, zero padding to a multiple of
\* four bytes, Options, DesiredAccess.
OpenKeyReqLayout ==
    LET T == NullTerminate(enc.req0.SubKey.S)
        n == Len(T)
        pad == (4 - ((2 * n) % 4)) % 4
        b == enc.b
    IN /\ enc.err = "none"
       /\ Len(b) = 40 + 2 * n + pad + 8
       /\ SubSeq(b, 1, 20) = enc.req0.HKey
       /\ SubSeq(b, 25, 28) = LE32(1)
       /\ Int32(SubSeq(b, 29, 32)) >= n
       /\ SubSeq(b, 33, 40) = LE32(0) \o LE32(n)
       /\ SubSeq(b, 41, 40 + 2 * n) = ToUnicode(T)
       /\ SubSeq(b, 39 + 2 * n, 40 + 2 * n) = <<0, 0>>
       /\ SubSeq(b, 41 + 2 * n, 40 + 2 * n + pad) = Zeros(pad)
       /\ SubSeq(b, Len(b) - 7, Len(b))
              = LE32(enc.req0.Options) \o LE32(enc.req0.DesiredAccess)

\* C13 as stated: every BaseRegOpenKeyReq with a 20-byte handle encodes to
\* handle, sub-key with one trailing null, Options, DesiredAccess.
C13_OpenKeyReqLayout ==
    (Encoded /\ enc.req0.typ = "BaseRegOpenKeyReq" /\ Len(enc.req0.HKey) = 20) =>
        OpenKeyReqLayout

\* C13 as amended: the same for every non-empty sub-key.
C13_OpenKeyReqLayoutNonEmpty ==
    (/\ Encoded
     /\ enc.req0.typ = "BaseRegOpenKeyReq"
     /\ Len(enc.req0.HKey) = 20
     /\ enc.req0.SubKey.S # <<>>) => OpenKeyReqLayout

C13_Witness ==
    /\ Encoded
    /\ enc.req0.typ = "BaseRegOpenKeyReq"
    /\ Len(enc.req0.HKey) = 20
    /\ enc.req0.SubKey.S = <<65, 233>>
    /\ enc.req0.Options = 1
    /\ Len(enc.b) = 56

\* The requests that end in an RPC security descriptor, behind the handle
\* and SecurityInformation.
SecDescTypes == {"BaseRegGetKeySecurityReq", "BaseRegSetKeySecurityReq"}

\* C14: the wrapper of a descriptor with blob length L and allocated size A
\* is referent ID, max(A, L), L, then MaxCount, Offset 0, ActualCount L and
\* the blob; the wrapper of a nil descriptor is a null pointer and the two
\* length fields as given, and the referent-ID counter stays where it was.
C14_SecurityDescriptorWrapper ==
    (/\ Encoded
     /\ enc.req0.typ \in SecDescTypes
     /\ Len(enc.req0.HKey) = 20) =>
        LET sd == enc.req0.SecurityDescriptorIn
            A == sd.InSecurityDescriptor
            tail == SubSeq(enc.b, 25, Len(enc.b))
        IN /\ enc.err = "none"
           /\ IF sd.SecurityDescriptor = Null
              THEN /\ tail = LE32(0) \o LE32(A) \o LE32(sd.OutSecurityDescriptor)
                   /\ NonNull(enc.refs) = <<>>
                   /\ MarshalBinary(enc.req0).refId = 1
              ELSE LET blob == SecurityDescriptor_MarshalBinary(sd.SecurityDescriptor)
                       L == Len(blob)
                   IN /\ SubSeq(tail, 1, 12)
                            = LE32(1) \o LE32(IF A < L THEN L ELSE A) \o LE32(L)
                      /\ Int32(SubSeq(tail, 13, 16)) >= L
                      /\ SubSeq(tail, 17, 24) = LE32(0) \o LE32(L)
                      /\ SubSeq(tail, 25, 24 + L) = blob
                      /\ Len(tail) = 24 + L + ((4 - (L % 4)) % 4)
                      /\ MarshalBinary(enc.req0).refId = 2

C14_Witness ==
    /\ Encoded
    /\ enc.req0.typ = "BaseRegGetKeySecurityReq"
    /\ Len(enc.req0.HKey) = 20
    /\ enc.req0.SecurityDescriptorIn.SecurityDescriptor # Null
    /\ enc.req0.SecurityDescriptorIn.InSecurityDescriptor = 0
    /\ Len(enc.b) = 80

\* C15: BaseRegGetKeySecurityRes.UnmarshalBinary takes ReturnCode from the
\* last four bytes first; when it is not zero the call returns without
\* error, has read those four bytes only and leaves SecurityDescriptorOut
\* (descriptor and both sizes) as it was; SecurityDescriptorOut is written
\* only when the code is zero.
C15_DescriptorOnlyOnSuccess ==
    (Decoded /\ dec.typ = "BaseRegGetKeySecurityRes" /\ Len(dec.buf) >= 16) =>
        /\ dec.self.ReturnCode = CodeOf(dec.buf)
        /\ CodeOf(dec.buf) # 0 =>
              /\ dec.err = "none"
              /\ dec.nread = 4
              /\ dec.self.SecurityDescriptorOut = dec.self0.SecurityDescriptorOut
        /\ dec.self.SecurityDescriptorOut # dec.self0.SecurityDescriptorOut =>
              CodeOf(dec.buf) = 0

C15_Witness ==
    /\ Decoded
    /\ dec.typ = "BaseRegGetKeySecurityRes"
    /\ Len(dec.buf) > 40
    /\ CodeOf(dec.buf) # 0
    /\ dec.err = "none"
    /\ dec.self.SecurityDescriptorOut = ZeroOf(dec.typ).SecurityDescriptorOut

\* The conformant-varying string of an RRPUnicodeStr buffer (header of 8
\* bytes, then MaxCount, Offset, ActualCount) does not fit: its offset skip,
\* its ActualCount*2 element bytes or its padding end beyond the buffer.
StringOverrunsBuffer ==
    LET offset == W32(SubSeq(dec.buf, 13, 16))
        actualCount == W32(SubSeq(dec.buf, 17, 20))
    IN \/ offset.hi > 0
       \/ actualCount.hi > 0
       \/ 20 + 2 * offset.lo + 2 * actualCount.lo + ExactPad(offset, actualCount)
              > Len(dec.buf)

\* C16: RRPUnicodeStr.UnmarshalBinary fails whenever the element bytes, the
\* offset skip or the padding skip of the string reach beyond the end of the
\* buffer.
C16_MalformedStringRejected ==
    (/\ Decoded
     /\ dec.typ = "RRPUnicodeStr"
     /\ Len(dec.buf) >= 20
     /\ Int16(SubSeq(dec.buf, 1, 2)) # 0
     /\ ~IsZero32(W32(SubSeq(dec.buf, 9, 12)))
     /\ StringOverrunsBuffer) => dec.err # "none"

HandleRoundTripTypes == {"BaseRegCloseKeyReq", "OpenKeyRes"}

\* C17: BaseRegCloseKeyReq{H} and OpenKeyRes{H, code} with a 20-byte H
\* encode without error, and decoding the bytes succeeds and yields H byte
\* for byte (and the same return code).
C17_HandleRoundTrip ==
    /\ (/\ Encoded
        /\ enc.req0.typ \in HandleRoundTripTypes
        /\ Len(enc.req0.HKey) = 20) => enc.err = "none"
    /\ (pc = "roundtrip" /\ enc.req0.typ \in HandleRoundTripTypes) =>
          /\ dec.err = "none"
          /\ dec.self.HKey = enc.req0.HKey
          /\ enc.req0.typ = "OpenKeyRes" => dec.self.ReturnCode = enc.req0.ReturnCode

C17_Witness ==
    /\ pc = "roundtrip"
    /\ enc.req0.typ = "OpenKeyRes"
    /\ enc.req0.HKey = Handle(20, 200)
    /\ enc.req0.ReturnCode = 259
    /\ dec.self.ReturnCode = 259

(***************************************************************************)
(* The test program (main.go): main runs the anonymous negotiation test,   *)
(* then the authentication test when -user is given.  prog holds the       *)
(* flags, the position in the program, the deferred calls of the running   *)
(* function, the error it is about to return, and the calls made so far.   *)
(* An error value is its message; "" is nil.  The server's answers         *)
(* (connection made or not, authenticated or not, share connected or not)  *)
(* are chosen at the call.                                                 *)
(***************************************************************************)
Usernames == {<<>>, <<117>>}

\* The moves of one sequential program step: pc, and what it logs.
Goto(p, label, events) ==
    [p EXCEPT !.pc = label, !.log = p.log \o events]

\* defer f(): the deferred calls of a function run last-in first-out, so the
\* newest is kept at the head.
Defer_Queue(deferred, call) == Append(deferred, call)

Defer(deferred, call) == <<call>> \o deferred

InitMain ==
    /\ pc = "idle"
    /\ enc = Null
    /\ dec = Null
    /\ calls = <<>>
    /\ refCell = <<>>
    /\ \E username \in Usernames, debug \in BOOLEAN, showDialects \in BOOLEAN :
        prog = [pc |-> "main_debug", username |-> username, debug |-> debug,
                showDialects |-> showDialects, err |-> "", negErr |-> "",
                authRan |-> FALSE, authErr |-> "", deferred |-> <<>>,
                log |-> <<>>, exited |-> FALSE, status |-> 0]

Running(label) == prog # <<>> /\ ~prog.exited /\ prog.pc = label

Step(p) == prog' = p /\ UNCHANGED <<pc, enc, dec, calls, refCell>>

\* if *debug { logger.Infoln(...) }
main_debug ==
    /\ Running("main_debug")
    /\ Step(Goto(prog, "main_showDialects",
                 IF prog.debug THEN <<"Debug logging enabled">> ELSE <<>>))

\* if *showDialects { showSupportedDialects() }
main_showDialects ==
    /\ Running("main_showDialects")
    /\ Step(Goto(prog, "testNegotiation_NewConnection",
                 IF prog.showDialects THEN <<"showSupportedDialects">> ELSE <<>>))

\* testNegotiation: session, err := smb.NewConnection(options); on an error
\* it returns, otherwise defer session.Close().
testNegotiation_NewConnection ==
    /\ Running("testNegotiation_NewConnection")
    /\ \E ok \in BOOLEAN :
        IF ok
        THEN Step([Goto(prog, "testNegotiation_show", <<"NewConnection">>)
                    EXCEPT !.err = "", !.deferred = Defer(<<>>, "Close")])
        ELSE Step([Goto(prog, "testNegotiation_return", <<"NewConnection">>)
                    EXCEPT !.err = "failed to create connection",
                           !.deferred = <<>>])

\* testNegotiation: showNegotiationResult(session); return nil
testNegotiation_show ==
    /\ Running("testNegotiation_show")
    /\ Step([Goto(prog, "testNegotiation_return", <<"showNegotiationResult">>)
              EXCEPT !.err = ""])

\* A returning function runs its deferred calls, newest first.
RunDeferred ==
    /\ prog # <<>> /\ ~prog.exited
    /\ prog.pc \in {"testNegotiation_return", "testAuthentication_return"}
    /\ prog.deferred # <<>>
    /\ Step([Goto(prog, prog.pc, <<Head(prog.deferred)>>)
              EXCEPT !.deferred = Tail(prog.deferred)])

\* main: if err := testNegotiation(...); err != nil { log } else { print };
\* either way main goes on.
main_negotiationResult ==
    /\ Running("testNegotiation_return")
    /\ prog.deferred = <<>>
    /\ Step([Goto(prog, "main_username",
                  IF prog.err # "" THEN <<"Negotiation test failed">>
                  ELSE <<"Anonymous negotiation successful">>)
              EXCEPT !.negErr = prog.err, !.err = ""])

\* main: if *username != "" { testAuthentication(...) }
main_username ==
    /\ Running("main_username")
    /\ IF prog.username # <<>>
       THEN Step([Goto(prog, "testAuthentication_NewConnection",
                       <<"Testing SMB Authentication">>)
                   EXCEPT !.authRan = TRUE])
       ELSE Step(Goto(prog, "main_completed", <<>>))

\* testAuthentication: session, err := smb.NewConnection(options); on an
\* error it returns, otherwise defer session.Close().
testAuthentication_NewConnection ==
    /\ Running("testAuthentication_NewConnection")
    /\ \E ok \in BOOLEAN :
        IF ok
        THEN Step([Goto(prog, "testAuthentication_IsAuthenticated",
                        <<"NewConnection">>)
                    EXCEPT !.err = "", !.deferred = Defer(<<>>, "Close")])
        ELSE Step([Goto(prog, "testAuthentication_return", <<"NewConnection">>)
                    EXCEPT !.err = "failed to create authenticated connection",
                           !.deferred = <<>>])

\* testAuthentication: if session.IsAuthenticated() { print } else { return
\* an error }
testAuthentication_IsAuthenticated ==
    /\ Running("testAuthentication_IsAuthenticated")
    /\ \E authenticated \in BOOLEAN :
        IF authenticated
        THEN Step(Goto(prog, "testAuthentication_TreeConnect",
                       <<"IsAuthenticated: true", "showNegotiationResult">>))
        ELSE Step([Goto(prog, "testAuthentication_return",
                        <<"IsAuthenticated: false">>)
                    EXCEPT !.err = "authentication failed"])

\* testAuthentication: err = session.TreeConnect("IPC$"); on an error it
\* returns, otherwise defer session.TreeDisconnect("IPC$") and return nil.
testAuthentication_TreeConnect ==
    /\ Running("testAuthentication_TreeConnect")
    /\ \E ok \in BOOLEAN :
        IF ok
        THEN Step([Goto(prog, "testAuthentication_return",
                        <<"TreeConnect", "TreeConnect: connected">>)
                    EXCEPT !.err = "",
                           !.deferred = Defer(prog.deferred, "TreeDisconnect")])
        ELSE Step([Goto(prog, "testAuthentication_return", <<"TreeConnect">>)
                    EXCEPT !.err = "failed to connect to IPC$ share"])

\* main: if err := testAuthentication(...); err != nil { log; os.Exit(1) }
main_authenticationResult ==
    /\ Running("testAuthentication_return")
    /\ prog.deferred = <<>>
    /\ IF prog.err # ""
       THEN Step([Goto(prog, "exit", <<"Authentication test failed">>)
                   EXCEPT !.authErr = prog.err, !.exited = TRUE, !.status = 1])
       ELSE Step([Goto(prog, "main_completed", <<>>) EXCEPT !.authErr = ""])

\* main: fmt.Println("All tests completed!") and main returns.
main_completed ==
    /\ Running("main_completed")
    /\ Step([Goto(prog, "exit", <<"All tests completed">>)
              EXCEPT !.exited = TRUE, !.status = 0])

NextMain ==
    \/ main_debug
    \/ main_showDialects
    \/ testNegotiation_NewConnection
    \/ testNegotiation_show
    \/ RunDeferred
    \/ main_negotiationResult
    \/ main_username
    \/ testAuthentication_NewConnection
    \/ testAuthentication_IsAuthenticated
    \/ testAuthentication_TreeConnect
    \/ main_authenticationResult
    \/ main_completed

SpecMain == InitMain /\ [][NextMain]_vars

\* The calls the program has made, by position in prog.log.
Logged(event) == \E i \in 1..Len(prog.log) : prog.log[i] = event

\* event a was made, and before every later event c an event b came between.
Between(a, b, c) ==
    \A i \in 1..Len(prog.log) : \A k \in 1..Len(prog.log) :
        (i < k /\ prog.log[i] = a /\ prog.log[k] = c)
            => \E j \in (i + 1)..(k - 1) : prog.log[j] = b

\* C18: the authentication test runs exactly when -user is non-empty,
\* whatever the negotiation test returned; the process exits with status 1
\* exactly when the authentication test ran and failed, and every other run
\* ends at 'All tests completed' (no run stops anywhere else); the IPC$ tree
\* connect is attempted only after IsAuthenticated returned true, and a
\* successful tree connect is disconnected before the session is closed.
C18_ControlFlow ==
    prog # <<>> =>
        /\ prog.authRan => prog.username # <<>>
        /\ (prog.exited \/ prog.pc = "main_completed")
                => (prog.authRan <=> prog.username # <<>>)
        /\ (~ENABLED NextMain) => prog.exited
        /\ prog.exited =>
            /\ prog.status = 1 <=> (prog.authRan /\ prog.authErr # "")
            /\ prog.status # 1 =>
                /\ prog.status = 0
                /\ prog.log[Len(prog.log)] = "All tests completed"
            /\ prog.status = 1 => ~Logged("All tests completed")
        /\ \A i \in 1..Len(prog.log) :
                prog.log[i] = "TreeConnect"
                    => \E j \in 1..(i - 1) : prog.log[j] = "IsAuthenticated: true"
        /\ Between("TreeConnect: connected", "TreeDisconnect", "Close")
        /\ (prog.exited /\ Logged("TreeConnect: connected"))
                => (Logged("TreeDisconnect") /\ prog.log[Len(prog.log) - 1] = "Close")

C18_Witness ==
    /\ prog # <<>>
    /\ prog.exited
    /\ prog.negErr # ""
    /\ prog.authRan
    /\ prog.status = 0
    /\ Logged("TreeConnect: connected")
    /\ Logged("TreeDisconnect")

\* C19: a BaseRegEnumKeyReq with a LastWriteTime ends with a non-zero
\* referent ID and the FILETIME; with a nil LastWriteTime the encode still
\* completes without failure and writes no referent ID for that field.
C19_LastWriteTimeOptional ==
    (Encoded /\ enc.req0.typ = "BaseRegEnumKeyReq" /\ Len(enc.req0.HKey) = 20) =>
        IF enc.req0.LastWriteTime = Null
        THEN /\ enc.err = "none"
             /\ \A i \in DOMAIN enc.refs :
                    enc.refs[i].at + 4 = Len(enc.b) => enc.refs[i].v = 0
        ELSE enc.err = "none" =>
             LET n == Len(enc.b)
             IN /\ n >= 12
                /\ SubSeq(enc.b, n - 11, n - 8) # <<0, 0, 0, 0>>
                /\ \E i \in DOMAIN enc.refs :
                       enc.refs[i].at = n - 12 /\ ~enc.refs[i].absent
                /\ SubSeq(enc.b, n - 7, n)
                       = LE32(enc.req0.LastWriteTime.LowDateTime)
                         \o LE32(enc.req0.LastWriteTime.HighDateTime)

\* C20: a BaseRegCreateKeyReq ends with a referent ID and the Disposition
\* value exactly when Disposition is non-zero, and with the single u32 0
\* after the security-attributes slot when it is zero; a nil SecurityAttr is
\* the single u32 0 right after Options and DesiredAccess.
C20_DispositionReferent ==
    (Encoded /\ enc.req0.typ = "BaseRegCreateKeyReq" /\ enc.err = "none") =>
        LET n == Len(enc.b)
            slot == enc.strs[2].end + 8
            last == enc.refs[Len(enc.refs)]
            nrefs == 2 + (IF enc.req0.SecurityAttr = Null THEN 1 ELSE 2) + 1
        IN /\ Len(enc.strs) = 2
           /\ Len(enc.refs) = nrefs
           /\ IF enc.req0.Disposition # 0
              THEN /\ last.at = n - 8
                   /\ ~last.absent
                   /\ SubSeq(enc.b, n - 7, n - 4) # <<0, 0, 0, 0>>
                   /\ SubSeq(enc.b, n - 3, n) = LE32(enc.req0.Disposition)
              ELSE /\ last.at = n - 4
                   /\ last.absent
                   /\ SubSeq(enc.b, n - 3, n) = <<0, 0, 0, 0>>
           /\ enc.req0.SecurityAttr = Null =>
                /\ SubSeq(enc.b, slot + 1, slot + 4) = <<0, 0, 0, 0>>
                /\ n = slot + 4 + (IF enc.req0.Disposition # 0 THEN 8 ELSE 4)

C20_Witness ==
    /\ Encoded
    /\ enc.req0.typ = "BaseRegCreateKeyReq"
    /\ enc.err = "none"
    /\ enc.req0.Disposition # 0
    /\ enc.req0.SecurityAttr = Null
    /\ enc.req0.SubKey.S # <<>>

\* The conformant-varying header behind the first string's referent ID.
WireMaxCount == SubSeq(enc.b, StrAt + 9, StrAt + 12)

WireOffset == SubSeq(enc.b, StrAt + 13, StrAt + 16)

WireActualCount == SubSeq(enc.b, StrAt + 17, StrAt + 20)

\* The number of UTF-16 code units of the string with its terminator.
ElementCount(s) == Len(NullTerminate(s))

NonEmptyStringEncoded ==
    /\ Encoded
    /\ enc.err = "none"
    /\ enc.req0.typ \in StrFirstTypes
    /\ enc.req0[StrField].S # <<>>

\* C21 (as stated): for every non-empty string and caller-supplied MaxLength
\* the header has MaxCount = element count, Offset = 0 and ActualCount =
\* element count.
C21_HeaderCounts ==
    NonEmptyStringEncoded =>
        LET n == ElementCount(enc.req0[StrField].S)
        IN /\ WireMaxCount = LE32(n)
           /\ WireOffset = LE32(0)
           /\ WireActualCount = LE32(n)

\* C21 (amended): Offset is 0 and ActualCount is the element count, and
\* MaxCount is the string's MaxLength as the encoder leaves it: the caller's
\* MaxLength when that is at least uint16(len(S)) of the terminated string,
\* and that 16-bit byte length otherwise.
C21_HeaderCountsMaxLength ==
    NonEmptyStringEncoded =>
        LET s == enc.req0[StrField].S
            ml == enc.req0[StrField].MaxLength
            l == U16(Utf8Len(NullTerminate(s)))
        IN /\ WireMaxCount = LE32(IF ml < l THEN l ELSE ml)
           /\ WireMaxCount = LE32(enc.req[StrField].MaxLength)
           /\ WireOffset = LE32(0)
           /\ WireActualCount = LE32(ElementCount(s))

C21_Witness ==
    /\ NonEmptyStringEncoded
    /\ enc.req0.typ = "BaseRegDeleteKeyReq"
    /\ enc.req0.SubKey = [MaxLength |-> 3, S |-> <<65>>]
    /\ WireMaxCount = LE32(3)
    /\ WireActualCount = LE32(2)

ThreePointerTypes ==
    {"BaseRegEnumKeyReq", "BaseRegEnumValueReq", "BaseRegQueryValueReq"}

\* Where the first string's RPC_UNICODE_STRING header starts: behind the
\* handle, and behind Index in the two enumeration requests.
FirstStrAt == IF enc.req0.typ = "BaseRegQueryValueReq" THEN 20 ELSE 24

\* The three pointer slots in stream order: the name buffer, then the slot
\* right behind the name's array (class pointer or Type), then the slot of
\* the ClassIn buffer (behind its 4-byte header) or of Data (behind the
\* 4-byte Type value).
ThreeSlots == <<FirstStrAt + 4, enc.strs[1].end, enc.strs[1].end + 8>>

\* C22: the first three pointer slots of BaseRegEnumKeyReq,
\* BaseRegEnumValueReq and BaseRegQueryValueReq carry the referent IDs
\* 1, 2, 3 in stream order.
C22_OneTwoThree ==
    (Encoded /\ enc.err = "none" /\ enc.req0.typ \in ThreePointerTypes) =>
        /\ Len(enc.refs) >= 3
        /\ \A i \in 1..3 :
              /\ enc.refs[i].v = i
              /\ ~enc.refs[i].absent
              /\ enc.refs[i].at = ThreeSlots[i]
              /\ SubSeq(enc.b, ThreeSlots[i] + 1, ThreeSlots[i] + 4) = LE32(i)

C22_Witness ==
    /\ Encoded
    /\ enc.err = "none"
    /\ enc.req0.typ = "BaseRegQueryValueReq"
    /\ enc.req0.ValueName.S # <<>>
    /\ enc.req0.Data # <<>>
    /\ enc.refs[3].v = 3

\* The name a response buffer starts with: the characters of the array
\* behind the leading RPC_UNICODE_STRING header and referent ID, or the
\* empty string when its Length is 0.
WireName(buf) ==
    IF Int16(SubSeq(buf, 1, 2)) = 0 THEN <<>>
    ELSE FromUnicodeString(SubSeq(buf, 21, 20 + 2 * Int16(SubSeq(buf, 17, 18))))

\* The field a response starts with.
NameField(typ) == IF typ = "BaseRegQueryInfoKeyRes" THEN "ClassOut" ELSE "NameOut"

RPCStrTypes == {"BaseRegEnumValueRes", "BaseRegQueryInfoKeyRes"}

\* C23: decoding a well-formed response, an RPCUnicodeStr field that the
\* server null-terminated (BaseRegEnumValueRes.NameOut,
\* BaseRegQueryInfoKeyRes.ClassOut) is returned without that one trailing
\* null character; and a BaseRegEnumKeyRes decodes without error whether or
\* not its NameOut carries a terminator, which is stripped when present.
C23_TrailingNullStripped ==
    /\ (Decoded /\ dec.wf /\ dec.typ \in RPCStrTypes /\ dec.err = "none") =>
            dec.self[NameField(dec.typ)].S = StripNullByte(WireName(dec.buf))
    /\ (Decoded /\ dec.wf /\ dec.typ = "BaseRegEnumKeyRes") =>
            /\ dec.err = "none"
            /\ dec.self.NameOut.S = StripNullByte(WireName(dec.buf))

\* Values a server may put in a referent-ID slot.
ReferentValues == {<<0, 0, 0, 0>>, <<1, 0, 0, 0>>, <<255, 255, 255, 255>>}

\* The slots of refs chosen by K that lie in the buffer, by their offsets.
SlotsIn(buf, refs, K) ==
    {refs[k].lo : k \in {j \in K : refs[j].hi = 0 /\ refs[j].lo < Len(buf)}}

\* buf with the bytes of the chosen slots replaced by the bytes of v.
Patch(buf, slots, v) ==
    [i \in 1..Len(buf) |->
        IF \E p \in slots : p < i /\ i <= p + 4
        THEN v[i - (CHOOSE p \in slots : p < i /\ i <= p + 4)]
        ELSE buf[i]]

\* C24: a buffer that differs from the decoded one only in referent-ID slots
\* that the decoder skipped decodes to the same error outcome and the same
\* field values.
C24_ReferentIdsIgnored ==
    Decoded =>
        \A K \in SUBSET DOMAIN dec.refs : \A v \in ReferentValues :
            LET other == UnmarshalBinary(dec.self0,
                                         Patch(dec.buf, SlotsIn(dec.buf, dec.refs, K), v))
            IN other.err = dec.err /\ other.self = dec.self

C24_Witness ==
    /\ Decoded
    /\ dec.typ = "BaseRegEnumKeyRes"
    /\ dec.wf
    /\ dec.err = "none"
    /\ dec.self.NameOut.S # <<>>
    /\ Len(dec.refs) = 4
    /\ Patch(dec.buf, SlotsIn(dec.buf, dec.refs, DOMAIN dec.refs), <<0, 0, 0, 0>>) # dec.buf

\* C25: every UnmarshalBinary of the registry codec returns normally, with
\* nil or an error, for every buffer of every length, and reads no byte
\* outside the buffer.
C25_NoDecoderCrash ==
    (Decoded /\ dec.typ \in UnmarshalTypes) =>
        /\ dec.err # "panic"
        /\ dec.nread <= Len(dec.buf)

\* C26: for every non-empty string the 16-bit Length field equals twice the
\* ActualCount of the array that follows, which is the number of UTF-16
\* code units of the string with exactly one terminating null.
C26_LengthIsTwiceCount ==
    NonEmptyStringEncoded =>
        /\ WireActualCount = LE32(ElementCount(enc.req0[StrField].S))
        /\ WireLength = 2 * Int32(WireActualCount)

(***************************************************************************)
(* SMB1NegotiateRes.UnmarshalBinary (smb/smb1.go): the 32-byte header,     *)
(* WordCount, and the parameter block read "as far as the buffer goes".    *)
(* offset is the 0-based index of the next byte, as in the source.  A      *)
(* uint32 is held as Int32 holds it, SystemTime as its two 32-bit halves.  *)
(***************************************************************************)
\* The fields behind DialectIndex in the order the decoder tries them, with
\* their sizes in bytes.
NegotiateFields ==
    <<[f |-> "SecurityMode", n |-> 1], [f |-> "MaxMpxCount", n |-> 2],
      [f |-> "MaxVcCount", n |-> 2], [f |-> "MaxBufSize", n |-> 4],
      [f |-> "MaxRawSize", n |-> 4], [f |-> "SessionKey", n |-> 4],
      [f |-> "Capabilities", n |-> 4], [f |-> "SystemTime", n |-> 8],
      [f |-> "TimeZone", n |-> 2], [f |-> "KeyLength", n |-> 1]>>

\* buf[offset] / binary.LittleEndian.Uint16 / Uint32 / Uint64 of the bytes,
\* and int16(...) for TimeZone.
FieldValue(f, b) ==
    CASE Len(b) = 1 -> b[1]
      [] Len(b) = 2 ->
            IF f = "TimeZone" /\ Int16(b) >= 32768 THEN Int16(b) - 65536 ELSE Int16(b)
      [] Len(b) = 4 -> Int32(b)
      [] Len(b) = 8 -> <<Int32(SubSeq(b, 1, 4)), Int32(SubSeq(b, 5, 8))>>

\* The zero value of SMB1NegotiateRes.
ZeroNegotiateRes ==
    [typ |-> "SMB1NegotiateRes", Header |-> <<>>, WordCount |-> 0, DialectIndex |-> 0,
     SecurityMode |-> 0, MaxMpxCount |-> 0, MaxVcCount |-> 0, MaxBufSize |-> 0,
     MaxRawSize |-> 0, SessionKey |-> 0, Capabilities |-> 0, SystemTime |-> <<0, 0>>,
     TimeZone |-> 0, KeyLength |-> 0, ByteCount |-> 0, SecurityBlob |-> <<>>]

\* if len(buf) >= offset+n { self.F = ...; offset += n }: a field whose
\* bytes are not there is passed over and the offset stays where it is.
readField(d, fld) ==
    IF Len(d.buf) >= d.offset + fld.n
    THEN [d EXCEPT !.self[fld.f] =
                       FieldValue(fld.f, SubSeq(d.buf, d.offset + 1, d.offset + fld.n)),
                   !.offset = @ + fld.n]
    ELSE d

RECURSIVE readFields(_, _)
readFields(d, i) ==
    IF i > Len(NegotiateFields) THEN d
    ELSE readFields(readField(d, NegotiateFields[i]), i + 1)

\* ByteCount, and the blob when KeyLength > 0 and its bytes are there.
readSecurityBlob(d) ==
    IF d.self.KeyLength > 0 /\ Len(d.buf) >= d.offset + d.self.KeyLength
    THEN [d EXCEPT !.self.SecurityBlob =
                       SubSeq(d.buf, d.offset + 1, d.offset + d.self.KeyLength)]
    ELSE d

readByteCount(d) ==
    IF Len(d.buf) < d.offset + 2 THEN d
    ELSE readSecurityBlob(
             [d EXCEPT !.self.ByteCount =
                           FieldValue("ByteCount", SubSeq(d.buf, d.offset + 1, d.offset + 2)),
                       !.offset = @ + 2])

\* DialectIndex is required: without its two bytes the call fails.
readDialectIndex(d) ==
    IF Len(d.buf) < d.offset + 2 THEN [d EXCEPT !.err = "MissingDialectIndex"]
    ELSE readByteCount(readFields(
             [d EXCEPT !.self.DialectIndex =
                           FieldValue("DialectIndex",
                                      SubSeq(d.buf, d.offset + 1, d.offset + 2)),
                       !.offset = @ + 2], 1))

\* self.WordCount = buf[32]; WordCount 0: no dialect, DialectIndex 0xFFFF.
readWordCount(d) ==
    IF d.buf[33] = 0
    THEN [d EXCEPT !.self.WordCount = 0, !.self.DialectIndex = 65535, !.offset = 33]
    ELSE readDialectIndex([d EXCEPT !.self.WordCount = d.buf[33], !.offset = 33])

\* encoder.Unmarshal(buf[:32], &self.Header): the header is kept as its bytes.
readHeader(d) == readWordCount([d EXCEPT !.self.Header = SubSeq(d.buf, 1, 32)])

SMB1NegotiateRes_UnmarshalBinary(self, buf) ==
    IF Len(buf) < 37
    THEN [buf |-> buf, self |-> self, offset |-> 0, err |-> "TooShort"]
    ELSE readHeader([buf |-> buf, self |-> self, offset |-> 0, err |-> "none"])

\* Negotiate responses: the header, WordCount, a parameter block without a
\* zero byte, KeyLength and that many blob bytes; and every prefix of them.
NegotiateWordCounts == {0, 17}

NegotiateKeyLengths == {0, 1, 8}

NegotiateRes(wc, kl) ==
    [i \in 1..(69 + kl) |->
        CASE i <= 4 -> <<255, 83, 77, 66>>[i]
          [] i = 5 -> 114
          [] i <= 32 -> 0
          [] i = 33 -> wc
          [] i = 67 -> kl
          [] OTHER -> 100 + i]

NegotiateBufs ==
    UNION {{SubSeq(NegotiateRes(wc, kl), 1, k) : k \in 0..(69 + kl)} :
              wc \in NegotiateWordCounts, kl \in NegotiateKeyLengths}

\* x.UnmarshalBinary(buf, meta) for a fresh SMB1NegotiateRes x.
UnmarshalNegotiate ==
    /\ pc = "idle"
    /\ \E buf \in NegotiateBufs :
          LET d == SMB1NegotiateRes_UnmarshalBinary(ZeroNegotiateRes, buf)
          IN dec' = [typ |-> "SMB1NegotiateRes", buf |-> buf, self0 |-> ZeroNegotiateRes,
                     self |-> d.self, err |-> d.err, offset |-> d.offset]
    /\ pc' = "decoded"
    /\ UNCHANGED <<enc, calls, refCell, prog>>

NextNegotiate ==
    \/ UnmarshalNegotiate
    \/ Release

SpecNegotiate == Init /\ [][NextNegotiate]_vars

NegotiateDecoded == pc = "decoded" /\ dec.typ = "SMB1NegotiateRes"

\* The fixed protocol offset of the i-th field of NegotiateFields: the sizes
\* of the fields before it, behind the header, WordCount and DialectIndex.
RECURSIVE ProtocolOffset(_)
ProtocolOffset(i) ==
    IF i = 1 THEN 35 ELSE ProtocolOffset(i - 1) + NegotiateFields[i - 1].n

\* The i-th field's bytes are wholly in the buffer at its protocol offset.
Present(buf, i) == Len(buf) >= ProtocolOffset(i) + NegotiateFields[i].n

\* The field holds what the buffer holds at the field's protocol offset.
FromOwnOffset(i) ==
    dec.self[NegotiateFields[i].f]
        = FieldValue(NegotiateFields[i].f,
                     SubSeq(dec.buf, ProtocolOffset(i) + 1,
                            ProtocolOffset(i) + NegotiateFields[i].n))

\* C27: a buffer under 37 bytes is rejected; WordCount 0 gives DialectIndex
\* 0xFFFF and no other field; otherwise every field that is wholly present,
\* with all fields before it, holds the bytes at its own protocol offset,
\* and the first field not wholly present and every field after it, through
\* ByteCount and SecurityBlob, keep their zero values.
C27_BestEffortDecode ==
    NegotiateDecoded =>
        /\ Len(dec.buf) < 37 => (dec.err # "none" /\ dec.self = dec.self0)
        /\ (Len(dec.buf) >= 37 /\ dec.buf[33] = 0) =>
              /\ dec.err = "none"
              /\ dec.self = [dec.self0 EXCEPT !.Header = SubSeq(dec.buf, 1, 32),
                                              !.DialectIndex = 65535]
        /\ (Len(dec.buf) >= 37 /\ dec.buf[33] # 0) =>
              /\ dec.err = "none"
              /\ dec.self.DialectIndex = Int16(SubSeq(dec.buf, 34, 35))
              /\ \A i \in DOMAIN NegotiateFields :
                    IF \A j \in 1..i : Present(dec.buf, j)
                    THEN FromOwnOffset(i)
                    ELSE dec.self[NegotiateFields[i].f] = dec.self0[NegotiateFields[i].f]
              /\ Len(dec.buf) < 69 =>
                    (dec.self.ByteCount = 0 /\ dec.self.SecurityBlob = <<>>)

\* C28: OpenKeyRes.UnmarshalBinary succeeds on every buffer of at least 20
\* bytes and BaseRegCreateKeyRes.UnmarshalBinary on every buffer of at least
\* 28 bytes, and every fixed field is read from bytes of the buffer.
C28_MinimumCoversFixedPart ==
    (/\ Decoded
     /\ dec.typ \in {"OpenKeyRes", "BaseRegCreateKeyRes"}
     /\ Len(dec.buf) >= FixedPrefix(dec.typ)) =>
        /\ dec.err = "none"
        /\ dec.pos.hi = 0 /\ dec.pos.lo <= Len(dec.buf)

ValueReqTypes == {"BaseRegEnumValueReq", "BaseRegQueryValueReq"}

ValueResTypes == {"BaseRegEnumValueRes", "BaseRegQueryValueRes"}

\* The two trailing pointer values of a stream: <<first, second>>, each
\* behind its referent ID; a response has its return code behind them.
TrailingPair(b, tail) ==
    <<SubSeq(b, Len(b) - tail - 11, Len(b) - tail - 8),
      SubSeq(b, Len(b) - tail - 3, Len(b) - tail)>>

\* C29: the request writes MaxLen first and len(Data) second, whatever its
\* DataLen field holds, and the response decoder stores the first of the
\* two values in MaxLen and the second in DataLen.
C29_TrailingPairMeaning ==
    /\ (Encoded /\ enc.err = "none" /\ enc.req0.typ \in ValueReqTypes) =>
            TrailingPair(enc.b, 0)
                = <<LE32(enc.req0.MaxLen), LE32(Len(enc.req0.Data))>>
    /\ (Decoded /\ dec.wf /\ dec.err = "none" /\ dec.typ \in ValueResTypes) =>
            /\ dec.self.MaxLen = Int32(TrailingPair(dec.buf, 4)[1])
            /\ dec.self.DataLen = Int32(TrailingPair(dec.buf, 4)[2])

\* The RRPUnicodeStr fields a MarshalBinary passes to writeRRPUnicodeStr.
StringFields(typ) ==
    {MarshalSteps(typ)[i].f :
        i \in {j \in DOMAIN MarshalSteps(typ) : MarshalSteps(typ)[j].op = "RRPStr"}}

\* What an encode may do to one string field: a non-empty string ends in a
\* null character and is otherwise the same, an empty one stays empty, and
\* MaxLength is not lowered and covers the string.
StringFieldAfter(before, after) ==
    /\ after.S \in {before.S, Append(before.S, 0)}
    /\ before.S = <<>> => after.S = <<>>
    /\ after.S # <<>> => after.S[Len(after.S)] = 0
    /\ after.MaxLength >= before.MaxLength
    /\ after.MaxLength >= Len(after.S)

\* C30: MarshalBinary changes the request's string fields in place and
\* nothing else of the request, and encoding the request as the first
\* call left it yields the same bytes and leaves the request as it is.
C30_EncodingRepeatable ==
    (Encoded /\ enc.err = "none") =>
        /\ DOMAIN enc.req = DOMAIN enc.req0
        /\ \A f \in DOMAIN enc.req0 \ StringFields(enc.req0.typ) :
                enc.req[f] = enc.req0[f]
        /\ \A f \in StringFields(enc.req0.typ) :
                StringFieldAfter(enc.req0[f], enc.req[f])
        /\ MarshalBinary(enc.req).err = "none"
        /\ MarshalBinary(enc.req).b = enc.b
        /\ MarshalBinary(enc.req).req = enc.req

\* The first encode appended a null and raised MaxLength, and the request
\* has fields other than strings.
C30_Witness ==
    /\ Encoded /\ enc.err = "none"
    /\ enc.req0.typ = "BaseRegOpenKeyReq"
    /\ enc.req0.SubKey = [MaxLength |-> 0, S |-> <<65>>]
    /\ enc.req.SubKey = [MaxLength |-> 2, S |-> <<65, 0>>]
    /\ enc.req0.Options = 1

====
